---- MODULE Spec2Model ----
(***************************************************************************)
(* Model of the Millennium Falcon route search: the Galaxy adjacency       *)
(* structure (src/src/galaxy.py), the bounty hunter schedule               *)
(* (src/src/models.py) and PathFinder.find_min_encounters                  *)
(* (src/src/pathfinder.py), one action per iteration of its main loop;     *)
(* and of a C3PO's construction from its documents (src/src/parser.py,     *)
(* src/src/c3po.py) with the queries on the galaxy and schedule it holds.  *)
(***************************************************************************)
EXTENDS Integers, Sequences, FiniteSets, TLC

\* ---------------------------------------------------------------- bounds
MaxTravelTime == 2
MaxAutonomy == 2
MaxCountdown == 3

\* The hyperspace links the route lists are drawn from, in listing order;
\* Tatooine-Endor may be listed twice, as two parallel routes.
Links ==
  << <<"Tatooine", "Endor">>, <<"Tatooine", "Hoth">>,
     <<"Hoth", "Endor">>, <<"Tatooine", "Endor">> >>

\* A route off the way, listed after the others when none of them reaches
\* Endor: it puts Endor in a galaxy that lacks Tatooine, or any route
\* between the two.
SideRoute == [origin |-> "Endor", destination |-> "Dagobah", travel_time |-> 1]

HunterPlanets == {"Tatooine", "Hoth", "Endor"}
Starts == {"Tatooine"}
Destinations == {"Endor"}

\* Optional[...] values: None, or a value wrapped in a one-element tuple.
None == << >>
Some(x) == << x >>

VARIABLES
  routes,                  \* MillenniumFalconData.routes
  autonomy,                \* PathFinder.autonomy
  bounty_hunters,          \* EmpireData.bounty_hunters
  bounty_hunter_schedule,  \* PathFinder.bounty_hunter_schedule
  adjacency,               \* Galaxy._adjacency
  planets,                 \* Galaxy._planets
  start, destination, countdown,   \* arguments of the running call
  pc,                      \* "idle" | "loop" | "returned" | "raised"
  queue,                   \* BFS queue of <<state, path>>
  visited,                 \* (planet, day, fuel) -> minimum encounters
  min_encounters,          \* None for float('inf'), else Some(k)
  best_path,               \* None, else Some(path)
  result,                  \* None until the call returns, else Some(<<k, path>>)
  calls_left,              \* calls the caller still makes on this PathFinder
  earlier,                 \* what the completed calls returned
  answer,                  \* None, else Some(<<operation, arguments, outcome>>):
                           \* the last constructor or query called directly
  last_encounters,         \* C3PO._last_encounters: None, else Some(k)
  last_optimal_path,       \* C3PO._last_optimal_path: None, else Some(path)
  other                    \* None, else Some(locals): the locals of a second
                           \* find_min_encounters call, in progress on the same
                           \* galaxy, while the call it is interleaved with runs

vars ==
  << routes, autonomy, bounty_hunters, bounty_hunter_schedule, adjacency,
     planets, start, destination, countdown, pc, queue, visited,
     min_encounters, best_path, result, calls_left, earlier, answer,
     last_encounters, last_optimal_path, other >>

\* ------------------------------------------------------------- models.py
Route(o, d, t) == [origin |-> o, destination |-> d, travel_time |-> t]

BountyHunter(p, d) == [planet |-> p, day |-> d]

SearchState(p, d, f, e) == [planet |-> p, day |-> d, fuel |-> f, encounters |-> e]

\* SearchState.__post_init__: the states the constructor refuses.
SearchStateRejected(state) == state.day < 0 \/ state.fuel < 0 \/ state.encounters < 0

\* A call that raises yields the exception in place of an object.
Raised(exception) == [raised |-> exception]
IsRaised(outcome) == "raised" \in DOMAIN outcome

\* Route(...) with its __post_init__.
NewRoute(o, d, t) ==
  IF o = "" \/ d = "" THEN Raised("ValueError")
  ELSE IF t <= 0 THEN Raised("ValueError")
  ELSE Route(o, d, t)

\* BountyHunter(...) with its __post_init__.
NewBountyHunter(p, d) ==
  IF p = "" THEN Raised("ValueError")
  ELSE IF d < 0 THEN Raised("ValueError")
  ELSE BountyHunter(p, d)

NewMillenniumFalconDataZeroAllowed(a, rs) ==
  IF a < 0 THEN Raised("ValueError")
  ELSE IF rs = << >> THEN Raised("ValueError")
  ELSE [autonomy |-> a, routes |-> rs]

\* MillenniumFalconData(...) with its __post_init__.
NewMillenniumFalconData(a, rs) ==
  IF a <= 0 THEN Raised("ValueError")
  ELSE IF rs = << >> THEN Raised("ValueError")
  ELSE [autonomy |-> a, routes |-> rs]

\* EmpireData(...) with its __post_init__.
NewEmpireData(c, hunters) ==
  IF c < 0 THEN Raised("ValueError")
  ELSE [countdown |-> c, bounty_hunters |-> hunters]

RECURSIVE ScheduleFrom(_, _, _)
ScheduleFrom(hunters, i, schedule) ==
  IF i > Len(hunters) THEN schedule
  ELSE LET hunter == hunters[i]
           days == IF hunter.planet \in DOMAIN schedule
                   THEN schedule[hunter.planet] ELSE {}
       IN ScheduleFrom(hunters, i + 1,
                       [p \in DOMAIN schedule \cup {hunter.planet} |->
                          IF p = hunter.planet THEN days \cup {hunter.day}
                          ELSE schedule[p]])

\* Keeps, per planet, the day of its last sighting only.
GetBountyHunterScheduleLatest(hunters) ==
  [p \in {hunters[i].planet : i \in 1..Len(hunters)} |->
     {hunters[CHOOSE i \in 1..Len(hunters) :
                /\ hunters[i].planet = p
                /\ \A j \in (i + 1)..Len(hunters) : hunters[j].planet # p].day}]

GetBountyHunterSchedule(hunters) == ScheduleFrom(hunters, 1, << >>)

\* ------------------------------------------------------------- galaxy.py
AppendEdgeOverwriting(adj, from, to, t) ==
  [p \in DOMAIN adj \cup {from} |-> IF p = from THEN << <<to, t>> >> ELSE adj[p]]

AppendEdge(adj, from, to, t) ==
  [p \in DOMAIN adj \cup {from} |->
     IF p = from
     THEN Append(IF from \in DOMAIN adj THEN adj[from] ELSE << >>, <<to, t>>)
     ELSE adj[p]]

RECURSIVE AdjacencyFrom(_, _, _)
AdjacencyFrom(rs, i, adj) ==
  IF i > Len(rs) THEN adj
  ELSE AdjacencyFrom(rs, i + 1,
         AppendEdge(AppendEdge(adj, rs[i].origin, rs[i].destination, rs[i].travel_time),
                    rs[i].destination, rs[i].origin, rs[i].travel_time))

GalaxyAdjacency(rs) == AdjacencyFrom(rs, 1, << >>)

GalaxyPlanets(rs) ==
  {rs[i].origin : i \in 1..Len(rs)} \cup {rs[i].destination : i \in 1..Len(rs)}

\* Galaxy(routes): ValueError on an empty list, else the two structures.
NewGalaxy(rs) ==
  IF rs = << >> THEN Raised("ValueError")
  ELSE [adjacency |-> GalaxyAdjacency(rs), planets |-> GalaxyPlanets(rs)]

\* self._adjacency[planet] on the defaultdict: a missing key is inserted.
AdjacencyAfterIndexing(planet) ==
  IF planet \in DOMAIN adjacency THEN adjacency ELSE (planet :> << >>) @@ adjacency

\* _adjacency after self._adjacency.get(planet, []): get() inserts nothing.
AdjacencyAfterGet(planet) == adjacency

get_neighbors(planet) ==
  IF planet \in DOMAIN adjacency THEN adjacency[planet] ELSE << >>

has_planet(planet) == planet \in planets

\* The copy get_all_planets returns.
get_all_planets == planets

PlanetsSharedWithCaller(planet) == planets \cup {planet}

\* _planets after the caller adds `planet` to the set get_all_planets
\* returned: the set is a copy, the galaxy's own set is as it was.
PlanetsAfterCallerAdds(planet) == planets

\* The neighbours of `current` from index i on: TRUE when `end` is among them
\* before the scan ends, else the grown visited set and queue.
RECURSIVE ScanNeighbors(_, _, _, _, _)
ScanNeighbors(nbrs, i, end, seen, q) ==
  IF i > Len(nbrs) THEN [found |-> FALSE, seen |-> seen, q |-> q]
  ELSE IF nbrs[i][1] = end THEN [found |-> TRUE, seen |-> seen, q |-> q]
  ELSE IF nbrs[i][1] \notin seen
       THEN ScanNeighbors(nbrs, i + 1, end, seen \cup {nbrs[i][1]}, Append(q, nbrs[i][1]))
       ELSE ScanNeighbors(nbrs, i + 1, end, seen, q)

\* Gives up after the neighbours of the first planet dequeued.
ConnectedLoopOnce(q, seen, end) ==
  q # << >> /\ ScanNeighbors(get_neighbors(Head(q)), 1, end, seen, Tail(q)).found

RECURSIVE ConnectedLoop(_, _, _)
ConnectedLoop(q, seen, end) ==
  IF q = << >> THEN FALSE
  ELSE LET scan == ScanNeighbors(get_neighbors(Head(q)), 1, end, seen, Tail(q))
       IN IF scan.found THEN TRUE ELSE ConnectedLoop(scan.q, scan.seen, end)

is_connected_to_others(s, e) ==
  IF ~has_planet(s) \/ ~has_planet(e) THEN FALSE
  ELSE IF s = e THEN FALSE
  ELSE ConnectedLoop(<<s>>, {s}, e)

is_connected(s, e) ==
  IF ~has_planet(s) \/ ~has_planet(e) THEN FALSE
  ELSE IF s = e THEN TRUE
  ELSE ConnectedLoop(<<s>>, {s}, e)

\* ------------------------------------------------------------- parser.py
\* A parsed JSON document is a record of its fields, a value tagged with its
\* JSON type; a route or sighting entry is a record of plain values.
JsonInt(n) == [int |-> n]
JsonStr(str) == [str |-> str]
JsonList(list) == [list |-> list]
IsInt(v) == "int" \in DOMAIN v
IsList(v) == "list" \in DOMAIN v

\* dict.get(key, default)
Get(d, key, default) == IF key \in DOMAIN d THEN d[key] ELSE default

\* route_data.get('travel_time') or route_data.get('travelTime'), then
\* "or 0": a missing field and 0 are both false.
TravelTimeOf(route_data) ==
  IF Get(route_data, "travel_time", 0) # 0
  THEN route_data.travel_time
  ELSE Get(route_data, "travelTime", 0)

RECURSIVE ParseRoutes(_, _, _)
ParseRoutes(routes_data, i, acc) ==
  IF i > Len(routes_data) THEN [routes |-> acc]
  ELSE LET route == NewRoute(Get(routes_data[i], "origin", ""),
                             Get(routes_data[i], "destination", ""),
                             TravelTimeOf(routes_data[i]))
       IN IF IsRaised(route) THEN Raised("ParseError")
          ELSE ParseRoutes(routes_data, i + 1, Append(acc, route))

parse_millennium_falcon(data) ==
  IF "autonomy" \notin DOMAIN data THEN Raised("ParseError")
  ELSE IF "routes" \notin DOMAIN data THEN Raised("ParseError")
  ELSE IF ~IsInt(data.autonomy) THEN Raised("ParseError")
  ELSE IF ~IsList(data.routes) THEN Raised("ParseError")
  ELSE LET parsed == ParseRoutes(data.routes.list, 1, << >>)
       IN IF IsRaised(parsed) THEN parsed
          ELSE LET falcon == NewMillenniumFalconData(data.autonomy.int, parsed.routes)
               IN IF IsRaised(falcon) THEN Raised("ParseError") ELSE falcon

RECURSIVE ParseHunters(_, _, _)
ParseHunters(hunters_data, i, acc) ==
  IF i > Len(hunters_data) THEN [bounty_hunters |-> acc]
  ELSE LET hunter == NewBountyHunter(Get(hunters_data[i], "planet", ""),
                                     Get(hunters_data[i], "day", -1))
       IN IF IsRaised(hunter) THEN Raised("ParseError")
          ELSE ParseHunters(hunters_data, i + 1, Append(acc, hunter))

\* What stands for the document when there is no file at the path given.
NoFile == [no_file |-> TRUE]

parse_empire(data) ==
  IF "no_file" \in DOMAIN data THEN Raised("FileNotFoundError")
  ELSE IF "countdown" \notin DOMAIN data THEN Raised("ParseError")
  ELSE IF "bounty_hunters" \notin DOMAIN data THEN Raised("ParseError")
  ELSE IF ~IsInt(data.countdown) THEN Raised("ParseError")
  ELSE IF ~IsList(data.bounty_hunters) THEN Raised("ParseError")
  ELSE LET parsed == ParseHunters(data.bounty_hunters.list, 1, << >>)
       IN IF IsRaised(parsed) THEN parsed
          ELSE LET empire == NewEmpireData(data.countdown.int, parsed.bounty_hunters)
               IN IF IsRaised(empire) THEN Raised("ParseError") ELSE empire

\* --------------------------------------------------------- pathfinder.py
HasBountyHuntersInverted(planet, day) ==
  planet \notin DOMAIN bounty_hunter_schedule \/ day \in bounty_hunter_schedule[planet]

HasBountyHunters(planet, day) ==
  planet \in DOMAIN bounty_hunter_schedule /\ day \in bounty_hunter_schedule[planet]

Key(state) == <<state.planet, state.day, state.fuel>>

ShouldVisitOrEqual(state, vis) ==
  Key(state) \notin DOMAIN vis \/ state.encounters <= vis[Key(state)]

ShouldVisit(state, vis) ==
  Key(state) \notin DOMAIN vis \/ state.encounters < vis[Key(state)]

VisitStalePath(state, path, acc) ==
  IF ShouldVisit(state, acc.visited)
  THEN [visited |-> (Key(state) :> state.encounters) @@ acc.visited,
        queue |-> Append(acc.queue, <<state, path>>)]
  ELSE acc

VisitPushFront(state, path, acc) ==
  IF ShouldVisit(state, acc.visited)
  THEN [visited |-> (Key(state) :> state.encounters) @@ acc.visited,
        queue |-> << <<state, Append(path, state)>> >> \o acc.queue]
  ELSE acc

VisitUnrecorded(state, path, acc) ==
  IF ShouldVisit(state, acc.visited)
  THEN [visited |-> acc.visited,
        queue |-> Append(acc.queue, <<state, Append(path, state)>>)]
  ELSE acc

\* The "if self._should_visit(...)" block: record the state and enqueue it.
\* acc is [visited, queue], the two locals the block updates.
Visit(state, path, acc) ==
  IF ShouldVisit(state, acc.visited)
  THEN [visited |-> (Key(state) :> state.encounters) @@ acc.visited,
        queue |-> Append(acc.queue, <<state, Append(path, state)>>)]
  ELSE acc

Encounter(planet, day) == IF HasBountyHunters(planet, day) THEN 1 ELSE 0

CanJumpFullTank(travel_time, fuel) == travel_time <= autonomy

CanJump(travel_time, fuel) == travel_time <= fuel

TravelStateDeparture(cur, neighbor, travel_time) ==
  SearchState(neighbor, cur.day + travel_time, cur.fuel - travel_time,
              cur.encounters + Encounter(neighbor, cur.day))

TravelState(cur, neighbor, travel_time) ==
  SearchState(neighbor, cur.day + travel_time, cur.fuel - travel_time,
              cur.encounters + Encounter(neighbor, cur.day + travel_time))

CanRefuel(cur) == cur.fuel < autonomy

RefuelStateReset(cur) ==
  SearchState(cur.planet, cur.day + 1, autonomy, Encounter(cur.planet, cur.day + 1))

RefuelState(cur) ==
  SearchState(cur.planet, cur.day + 1, autonomy,
              cur.encounters + Encounter(cur.planet, cur.day + 1))

CanWaitNever(cur) == FALSE

CanWait(cur) == cur.fuel = autonomy

WaitState(cur) ==
  SearchState(cur.planet, cur.day + 1, autonomy,
              cur.encounters + Encounter(cur.planet, cur.day + 1))

RECURSIVE TravelFirstJumpOnly(_, _, _, _, _)
TravelFirstJumpOnly(nbrs, i, cur, path, acc) ==
  IF i > Len(nbrs) THEN acc
  ELSE IF CanJump(nbrs[i][2], cur.fuel)
  THEN Visit(TravelState(cur, nbrs[i][1], nbrs[i][2]), path, acc)
  ELSE TravelFirstJumpOnly(nbrs, i + 1, cur, path, acc)

\* ACTION 1: the loop over get_neighbors(current_state.planet), from index i.
RECURSIVE Travel(_, _, _, _, _)
Travel(nbrs, i, cur, path, acc) ==
  IF i > Len(nbrs) THEN acc
  ELSE Travel(nbrs, i + 1, cur, path,
              IF CanJump(nbrs[i][2], cur.fuel)
              THEN Visit(TravelState(cur, nbrs[i][1], nbrs[i][2]), path, acc)
              ELSE acc)

\* ACTION 2
Refuel(cur, path, acc) ==
  IF CanRefuel(cur) THEN Visit(RefuelState(cur), path, acc) ELSE acc

\* ACTION 3
Wait(cur, path, acc) ==
  IF CanWait(cur) THEN Visit(WaitState(cur), path, acc) ELSE acc

Explore(cur, path, acc) ==
  Wait(cur, path, Refuel(cur, path, Travel(get_neighbors(cur.planet), 1, cur, path, acc)))

ExceededEarly(state) == state.day >= countdown

ExceededLate(state) == state.day > countdown + 1

Exceeded(state) == state.day > countdown

BoundedByAny(state) == min_encounters # None

Bounded(state) == min_encounters # None /\ state.encounters >= min_encounters[1]

AtDestination(state) == state.planet = destination

Improves(state) == min_encounters = None \/ state.encounters < min_encounters[1]

UnknownPlanetStartOnly(s, d) == ~has_planet(s)

UnknownPlanet(s, d) == ~has_planet(s) \/ ~has_planet(d)

InitialState == SearchState(start, 0, autonomy, 0)

Returned(k, path) ==
  [start |-> start, destination |-> destination, countdown |-> countdown,
   encounters |-> k, path |-> path]

galaxy_vars == << routes, adjacency, planets >>
finder_vars == << autonomy, bounty_hunters, bounty_hunter_schedule >>
args_vars == << start, destination, countdown >>
search_vars == << queue, visited, min_encounters, best_path >>
last_vars == << last_encounters, last_optimal_path >>

\* What a call that raises ValueError yields in place of a value.
ValueError == << "ValueError" >>

\* pathfinder.py calculate_success_probability, the probability as the
\* fraction <<numerator, denominator>>.
calculate_success_probability(encounters) ==
  IF encounters < 0 THEN ValueError
  ELSE IF encounters = 0 THEN <<1, 1>>
  ELSE <<9 ^ encounters, 10 ^ encounters>>

OddsUnchecked(k) == calculate_success_probability(k)

\* c3po.py giveMeTheOdds, lines 135-142: the value returned for a search result.
Odds(k) == IF k = -1 THEN <<0, 1>> ELSE calculate_success_probability(k)

\* ------------------------------------------------------------------ Init
\* The routes over `links` with travel times `times`, a time of 0 leaving
\* the link out.
RoutesOver(links, times) ==
  LET all == [i \in 1..Len(links) |-> Route(links[i][1], links[i][2], times[i])]
      Listed(r) == r.travel_time > 0
  IN SelectSeq(all, Listed)

RoutesOf(times) == RoutesOver(Links, times)

MainLists == {RoutesOf(times) : times \in [1..Len(Links) -> 0..MaxTravelTime]}

RouteLists ==
  (MainLists \ {<< >>}) \cup
  {Append(rs, SideRoute) :
     rs \in {l \in MainLists : \A i \in 1..Len(l) : l[i].destination # "Endor"}}

Window(planet, from, to) ==
  [i \in 1..(to - from + 1) |-> BountyHunter(planet, from + i - 1)]

HunterLists ==
  {<< >>} \cup
  {Window(p, from, to) : p \in HunterPlanets,
                         from \in 0..MaxCountdown, to \in 0..MaxCountdown}

\* A single sighting, or none.
SingleSightings == {h \in HunterLists : Len(h) <= 1}

\* A single sighting on Hoth, the planet on the way, or none.
HothSightings == {h \in SingleSightings : \A i \in 1..Len(h) : h[i].planet = "Hoth"}

InitWith(n, hunter_lists) ==
  /\ routes \in RouteLists
  /\ adjacency = GalaxyAdjacency(routes)
  /\ planets = GalaxyPlanets(routes)
  /\ autonomy \in 1..MaxAutonomy
  /\ bounty_hunters \in hunter_lists
  /\ bounty_hunter_schedule = GetBountyHunterSchedule(bounty_hunters)
  /\ start = "" /\ destination = "" /\ countdown = 0
  /\ pc = "idle"
  /\ queue = << >> /\ visited = << >>
  /\ min_encounters = None /\ best_path = None
  /\ result = None
  /\ calls_left = n
  /\ earlier = {}
  /\ answer = None
  /\ last_encounters = None /\ last_optimal_path = None
  /\ other = None

Init == InitWith(1, HunterLists)

\* Two calls on one PathFinder, for the claims that relate a pair of results.
InitRepeated == InitWith(2, SingleSightings)

\* --------------------------------------------------------------- actions
Enter(s, d, c) ==
  /\ pc \in {"idle", "returned", "raised"}
  /\ calls_left > 0
  /\ calls_left' = calls_left - 1
  /\ start' = s /\ destination' = d /\ countdown' = c
  /\ UNCHANGED << galaxy_vars, finder_vars, answer, last_vars, other >>

\* lines 92-95: a planet missing from the galaxy raises ValueError.
CallUnknownPlanet(s, d, c) ==
  /\ Enter(s, d, c)
  /\ UnknownPlanet(s, d)
  /\ pc' = "raised"
  /\ result' = None
  /\ UNCHANGED << search_vars, earlier >>

CallNotConnectedRaises(s, d, c) ==
  /\ Enter(s, d, c)
  /\ ~UnknownPlanet(s, d)
  /\ ~is_connected(s, d)
  /\ pc' = "raised"
  /\ result' = None
  /\ UNCHANGED << search_vars, earlier >>

\* lines 98-99: no path at all, whatever the constraints.
CallNotConnected(s, d, c) ==
  /\ Enter(s, d, c)
  /\ ~UnknownPlanet(s, d)
  /\ ~is_connected(s, d)
  /\ pc' = "returned"
  /\ result' = Some(<<-1, None>>)
  /\ earlier' = earlier \cup
       {[start |-> s, destination |-> d, countdown |-> c, encounters |-> -1, path |-> None]}
  /\ UNCHANGED search_vars

CallSearchKeepingVisited(s, d, c) ==
  /\ Enter(s, d, c)
  /\ ~UnknownPlanet(s, d)
  /\ is_connected(s, d)
  /\ pc' = "loop"
  /\ queue' = << <<SearchState(s, 0, autonomy, 0), <<SearchState(s, 0, autonomy, 0)>> >> >>
  /\ visited' = [key \in DOMAIN visited \cup {<<s, 0, autonomy>>} |->
                   IF key = <<s, 0, autonomy>> THEN 0 ELSE visited[key]]
  /\ min_encounters' = None
  /\ best_path' = None
  /\ result' = None
  /\ UNCHANGED earlier

\* lines 102-120: the initial state, the queue and the visited map.
CallSearch(s, d, c) ==
  /\ Enter(s, d, c)
  /\ ~UnknownPlanet(s, d)
  /\ is_connected(s, d)
  /\ pc' = "loop"
  /\ queue' = << <<SearchState(s, 0, autonomy, 0), <<SearchState(s, 0, autonomy, 0)>> >> >>
  /\ visited' = (<<s, 0, autonomy>> :> 0)
  /\ min_encounters' = None
  /\ best_path' = None
  /\ result' = None
  /\ UNCHANGED earlier

Dequeue ==
  /\ pc = "loop"
  /\ queue # << >>
  /\ UNCHANGED << galaxy_vars, finder_vars, args_vars, pc, result, calls_left, earlier,
                  answer, last_vars, other >>

SkipExceededRequeued ==
  /\ Dequeue
  /\ Exceeded(Head(queue)[1])
  /\ queue' = Append(Tail(queue), Head(queue))
  /\ UNCHANGED << visited, min_encounters, best_path >>

\* lines 126-127
SkipExceeded ==
  /\ Dequeue
  /\ Exceeded(Head(queue)[1])
  /\ queue' = Tail(queue)
  /\ UNCHANGED << visited, min_encounters, best_path >>

\* lines 130-131
SkipBounded ==
  /\ Dequeue
  /\ ~Exceeded(Head(queue)[1])
  /\ Bounded(Head(queue)[1])
  /\ queue' = Tail(queue)
  /\ UNCHANGED << visited, min_encounters, best_path >>

ReachDestinationAndExpand ==
  /\ Dequeue
  /\ ~Exceeded(Head(queue)[1])
  /\ ~Bounded(Head(queue)[1])
  /\ AtDestination(Head(queue)[1])
  /\ LET acc == Explore(Head(queue)[1], Head(queue)[2],
                        [visited |-> visited, queue |-> Tail(queue)])
     IN /\ queue' = acc.queue
        /\ visited' = acc.visited
  /\ IF Improves(Head(queue)[1])
     THEN /\ min_encounters' = Some(Head(queue)[1].encounters)
          /\ best_path' = Some(Head(queue)[2])
     ELSE UNCHANGED << min_encounters, best_path >>

ReachDestinationTiesReplace ==
  /\ Dequeue
  /\ ~Exceeded(Head(queue)[1])
  /\ IF min_encounters = None THEN TRUE
     ELSE Head(queue)[1].encounters <= min_encounters[1]
  /\ AtDestination(Head(queue)[1])
  /\ queue' = Tail(queue)
  /\ min_encounters' = Some(Head(queue)[1].encounters)
  /\ best_path' = Some(Head(queue)[2])
  /\ UNCHANGED visited

\* lines 134-138
ReachDestination ==
  /\ Dequeue
  /\ ~Exceeded(Head(queue)[1])
  /\ ~Bounded(Head(queue)[1])
  /\ AtDestination(Head(queue)[1])
  /\ queue' = Tail(queue)
  /\ IF Improves(Head(queue)[1])
     THEN /\ min_encounters' = Some(Head(queue)[1].encounters)
          /\ best_path' = Some(Head(queue)[2])
     ELSE UNCHANGED << min_encounters, best_path >>
  /\ UNCHANGED visited

\* lines 143-207
ExploreActions ==
  /\ Dequeue
  /\ ~Exceeded(Head(queue)[1])
  /\ ~Bounded(Head(queue)[1])
  /\ ~AtDestination(Head(queue)[1])
  /\ LET acc == Explore(Head(queue)[1], Head(queue)[2],
                        [visited |-> visited, queue |-> Tail(queue)])
     IN /\ queue' = acc.queue
        /\ visited' = acc.visited
  /\ UNCHANGED << min_encounters, best_path >>

\* lines 210-213
Return ==
  /\ pc = "loop"
  /\ queue = << >>
  /\ pc' = "returned"
  /\ LET k == IF min_encounters = None THEN -1 ELSE min_encounters[1]
         path == IF min_encounters = None THEN None ELSE best_path
     IN /\ result' = Some(<<k, path>>)
        /\ earlier' = earlier \cup {Returned(k, path)}
  /\ UNCHANGED << galaxy_vars, finder_vars, args_vars, search_vars, calls_left, answer,
                  last_vars, other >>

Next ==
  \/ \E s \in Starts, d \in Destinations, c \in 0..MaxCountdown : CallUnknownPlanet(s, d, c)
  \/ \E s \in Starts, d \in Destinations, c \in 0..MaxCountdown : CallNotConnected(s, d, c)
  \/ \E s \in Starts, d \in Destinations, c \in 0..MaxCountdown : CallSearch(s, d, c)
  \/ SkipExceeded
  \/ SkipBounded
  \/ ReachDestination
  \/ ExploreActions
  \/ Return

Spec == Init /\ [][Next]_vars

\* One iteration of "while queue", or the return once the queue is empty.
LoopStep == SkipExceeded \/ SkipBounded \/ ReachDestination \/ ExploreActions \/ Return

\* The call runs on: an iteration that can be taken is taken.
InitFair == InitWith(1, HothSightings)

SpecFair == InitFair /\ [][Next]_vars /\ WF_vars(LoopStep)

\* The second call comes with a deadline at least as late as the first.
SpecRepeated == InitRepeated /\ [][Next /\ countdown' >= countdown]_vars

\* ------------------------------------------------------- C3PO documents
\* The links of the documents' route lists: a cycle over three planets, the
\* Tatooine-Hoth link a second time the other way round, and a self-loop.
QueryLinks ==
  << <<"Tatooine", "Hoth">>, <<"Hoth", "Endor">>, <<"Endor", "Tatooine">>,
     <<"Hoth", "Tatooine">>, <<"Dagobah", "Dagobah">> >>

\* Every travel time for the two Tatooine-Hoth links, 1 for the others.
FalconRouteLists ==
  {RoutesOver(QueryLinks, times) :
     times \in {t \in [1..Len(QueryLinks) -> 0..MaxTravelTime] :
                 \A i \in {2, 3, 5} : t[i] <= 1}}

PlainList == << Route("Tatooine", "Endor", 1) >>

\* Entries of a "routes" array that are not plain valid routes.
OddRoutes ==
  { [origin |-> "", destination |-> "Hoth", travel_time |-> 1],
    [origin |-> "Hoth", destination |-> "", travel_time |-> 1],
    [destination |-> "Hoth", travel_time |-> 1],
    [origin |-> "Endor", destination |-> "Hoth", travel_time |-> 0],
    [origin |-> "Endor", destination |-> "Hoth", travel_time |-> -1],
    [origin |-> "Endor", destination |-> "Hoth"],
    [origin |-> "Endor", destination |-> "Hoth", travelTime |-> 1],
    [origin |-> "Endor", destination |-> "Hoth", travel_time |-> 0, travelTime |-> 1],
    [origin |-> "Endor", destination |-> "Hoth", travelTime |-> -1] }

FalconDocs ==
  {[autonomy |-> JsonInt(1), routes |-> JsonList(rs)] : rs \in FalconRouteLists}
  \cup {[autonomy |-> JsonInt(a), routes |-> JsonList(PlainList)] : a \in -1..MaxAutonomy}
  \cup {[autonomy |-> JsonInt(1), routes |-> JsonList(Append(PlainList, odd))] :
          odd \in OddRoutes}
  \cup { [routes |-> JsonList(PlainList)],
         [autonomy |-> JsonInt(1)],
         [autonomy |-> JsonStr("1"), routes |-> JsonList(PlainList)],
         [autonomy |-> JsonInt(1), routes |-> JsonStr("none")] }

QueryPlanets == {"Tatooine", "Hoth", "Endor", "Dagobah", "Bespin"}
QueryDays == 0..2
SchedulePlanets == {"Hoth", "Endor", "Bespin"}

QuerySightings == {BountyHunter(p, d) : p \in {"Hoth", "Endor"}, d \in 0..1}

\* Up to two sightings, the same one twice included.
QueryHunterLists == UNION {[1..n -> QuerySightings] : n \in 0..2}

OddHunters ==
  { [planet |-> "", day |-> 0],
    [planet |-> "Hoth", day |-> -1],
    [planet |-> "Hoth"],
    [day |-> 0] }

EmpireDocs ==
  {[countdown |-> JsonInt(0), bounty_hunters |-> JsonList(hs)] : hs \in QueryHunterLists}
  \cup {[countdown |-> JsonInt(c), bounty_hunters |-> JsonList(<< >>)] :
          c \in {-1, MaxCountdown}}
  \cup {[countdown |-> JsonInt(0),
          bounty_hunters |-> JsonList(<<BountyHunter("Hoth", 1), odd>>)] : odd \in OddHunters}
  \cup { [bounty_hunters |-> JsonList(<< >>)],
         [countdown |-> JsonInt(0)],
         [countdown |-> JsonStr("7"), bounty_hunters |-> JsonList(<< >>)],
         [countdown |-> JsonInt(0), bounty_hunters |-> JsonStr("none")] }

\* Before any object is constructed.
InitC3PO ==
  /\ routes = << >> /\ adjacency = << >> /\ planets = {}
  /\ autonomy = 0
  /\ bounty_hunters = << >> /\ bounty_hunter_schedule = << >>
  /\ start = "" /\ destination = "" /\ countdown = 0
  /\ pc = "new"
  /\ queue = << >> /\ visited = << >>
  /\ min_encounters = None /\ best_path = None
  /\ result = None
  /\ calls_left = 0
  /\ earlier = {}
  /\ answer = None
  /\ last_encounters = None /\ last_optimal_path = None
  /\ other = None

call_vars == << result, calls_left, earlier >>

\* A constructor of models.py or galaxy.py called on its own.
Make(class, args, outcome) ==
  /\ answer' = Some(<<class, args, outcome>>)
  /\ UNCHANGED << galaxy_vars, finder_vars, args_vars, search_vars, call_vars, pc,
                  last_vars, other >>

MakeRoute(o, d, t) ==
  /\ pc = "new"
  /\ Make("Route", <<o, d, t>>, NewRoute(o, d, t))

MakeBountyHunter(p, d) ==
  /\ pc = "new"
  /\ Make("BountyHunter", <<p, d>>, NewBountyHunter(p, d))

MakeMillenniumFalconData(a, rs) ==
  /\ pc = "new"
  /\ Make("MillenniumFalconData", <<a, rs>>, NewMillenniumFalconData(a, rs))

MakeEmpireData(c, hunters) ==
  /\ pc = "new"
  /\ Make("EmpireData", <<c, hunters>>, NewEmpireData(c, hunters))

MakeGalaxy(rs) ==
  /\ pc = "new"
  /\ Make("Galaxy", <<rs>>, NewGalaxy(rs))

\* c3po.py C3PO.__init__: the document parsed, the galaxy built.
NewC3PO(data) ==
  /\ pc = "new"
  /\ LET falcon == parse_millennium_falcon(data)
         galaxy == NewGalaxy(falcon.routes)
     IN IF IsRaised(falcon)
        THEN /\ pc' = "rejected"
             /\ answer' = Some(<<"C3PO", data, falcon>>)
             /\ UNCHANGED << galaxy_vars, autonomy >>
        ELSE IF IsRaised(galaxy)
        THEN /\ pc' = "rejected"
             /\ answer' = Some(<<"C3PO", data, galaxy>>)
             /\ UNCHANGED << galaxy_vars, autonomy >>
        ELSE /\ pc' = "c3po"
             /\ answer' = Some(<<"C3PO", data, [built |-> "C3PO"]>>)
             /\ routes' = falcon.routes
             /\ adjacency' = galaxy.adjacency
             /\ planets' = galaxy.planets
             /\ autonomy' = falcon.autonomy
  /\ UNCHANGED << bounty_hunters, bounty_hunter_schedule, args_vars, search_vars, call_vars,
                  last_vars, other >>

\* c3po.py giveMeTheOdds, lines 110-120, on a C3PO not asked before: the
\* empire document parsed, the schedule built and a PathFinder made of it;
\* the search of lines 124-128 is the call that Spec starts from.
LoadEmpire(data) ==
  /\ pc = "c3po"
  /\ LET empire == parse_empire(data)
     IN IF IsRaised(empire)
        THEN /\ answer' = Some(<<"giveMeTheOdds", data, empire>>)
             /\ UNCHANGED << pc, bounty_hunters, bounty_hunter_schedule, countdown >>
        ELSE /\ pc' = "ready"
             /\ answer' = Some(<<"giveMeTheOdds", data, [built |-> "PathFinder"]>>)
             /\ bounty_hunters' = empire.bounty_hunters
             /\ bounty_hunter_schedule' = GetBountyHunterSchedule(empire.bounty_hunters)
             /\ countdown' = empire.countdown
  /\ UNCHANGED << galaxy_vars, autonomy, start, destination, search_vars, call_vars,
                  last_vars, other >>

\* A query on the galaxy the C3PO holds.
Ask(operation, args, outcome) ==
  /\ pc = "c3po"
  /\ answer' = Some(<<operation, args, outcome>>)
  /\ UNCHANGED << routes, planets, finder_vars, args_vars, search_vars, call_vars, pc,
                  last_vars, other >>

AskConnected(a, b) ==
  /\ Ask("is_connected", <<a, b>>, is_connected(a, b))
  /\ UNCHANGED adjacency

AskNeighbors(planet) ==
  /\ Ask("get_neighbors", <<planet>>, get_neighbors(planet))
  /\ adjacency' = AdjacencyAfterGet(planet)

AskHasPlanet(planet) ==
  /\ Ask("has_planet", <<planet>>, has_planet(planet))
  /\ UNCHANGED adjacency

AskAllPlanets ==
  /\ Ask("get_all_planets", << >>, get_all_planets)
  /\ UNCHANGED adjacency

\* PathFinder._has_bounty_hunters on the schedule of the PathFinder made last.
AskPresent(planet, day) ==
  /\ pc = "ready"
  /\ answer' = Some(<<"_has_bounty_hunters", <<planet, day>>, HasBountyHunters(planet, day)>>)
  /\ UNCHANGED << galaxy_vars, finder_vars, args_vars, search_vars, call_vars, pc,
                  last_vars, other >>

NextC3PO ==
  \/ \E o \in {"", "Tatooine"}, d \in {"", "Hoth"}, t \in -1..MaxTravelTime : MakeRoute(o, d, t)
  \/ \E p \in {"", "Hoth"}, d \in -1..1 : MakeBountyHunter(p, d)
  \/ \E a \in -1..MaxAutonomy, rs \in {<< >>, PlainList} : MakeMillenniumFalconData(a, rs)
  \/ \E c \in -1..MaxCountdown, hs \in {<< >>} : MakeEmpireData(c, hs)
  \/ \E rs \in FalconRouteLists : MakeGalaxy(rs)
  \/ \E data \in FalconDocs : NewC3PO(data)
  \/ \E data \in EmpireDocs : LoadEmpire(data)
  \/ \E a \in QueryPlanets, b \in QueryPlanets : AskConnected(a, b)
  \/ \E planet \in QueryPlanets : AskNeighbors(planet)
  \/ \E planet \in QueryPlanets : AskHasPlanet(planet)
  \/ AskAllPlanets
  \/ \E planet \in SchedulePlanets, day \in QueryDays : AskPresent(planet, day)

SpecC3PO == InitC3PO /\ [][NextC3PO]_vars

\* ------------------------------------------------- C3PO.giveMeTheOdds
\* The empire documents of the calls: every deadline with a sighting on the
\* way or none, a missing file, and documents the parser refuses.
OddsDocs ==
  {[countdown |-> JsonInt(c), bounty_hunters |-> JsonList(hs)] :
     c \in 0..MaxCountdown, hs \in HothSightings}
  \cup { NoFile,
         [countdown |-> JsonInt(-1), bounty_hunters |-> JsonList(<< >>)],
         [countdown |-> JsonInt(1), bounty_hunters |-> JsonList(<<[planet |-> "Hoth"]>>)] }

\* A C3PO as its constructor leaves it, with two calls to come.
InitOdds ==
  /\ routes \in RouteLists
  /\ adjacency = GalaxyAdjacency(routes)
  /\ planets = GalaxyPlanets(routes)
  /\ autonomy \in 1..MaxAutonomy
  /\ bounty_hunters = << >> /\ bounty_hunter_schedule = << >>
  /\ start = "" /\ destination = "" /\ countdown = 0
  /\ pc = "c3po"
  /\ queue = << >> /\ visited = << >>
  /\ min_encounters = None /\ best_path = None
  /\ result = None
  /\ calls_left = 2
  /\ earlier = {}
  /\ answer = None
  /\ last_encounters = None /\ last_optimal_path = None
  /\ other = None

\* c3po.py giveMeTheOdds, lines 110-120: the empire document parsed, the
\* schedule built and a new PathFinder made of it; an exception of the
\* parser leaves the call.
OddsParse(data) ==
  /\ pc = "c3po"
  /\ calls_left > 0
  /\ LET empire == parse_empire(data)
     IN IF IsRaised(empire)
        THEN /\ answer' = Some(<<"giveMeTheOdds", data, empire>>)
             /\ calls_left' = calls_left - 1
             /\ UNCHANGED << pc, bounty_hunters, bounty_hunter_schedule, countdown >>
        ELSE /\ pc' = "idle"
             /\ answer' = Some(<<"giveMeTheOdds", data, [built |-> "PathFinder"]>>)
             /\ bounty_hunters' = empire.bounty_hunters
             /\ bounty_hunter_schedule' = GetBountyHunterSchedule(empire.bounty_hunters)
             /\ countdown' = empire.countdown
             /\ UNCHANGED calls_left
  /\ UNCHANGED << galaxy_vars, autonomy, start, destination, search_vars, result, earlier,
                  last_vars, other >>

\* lines 124-128: find_min_encounters("Tatooine", "Endor", countdown), as it
\* raises, returns at once or enters its loop.
OddsUnknownPlanet ==
  /\ pc = "idle"
  /\ CallUnknownPlanet("Tatooine", "Endor", countdown)

OddsNotConnected ==
  /\ pc = "idle"
  /\ CallNotConnected("Tatooine", "Endor", countdown)

OddsSearch ==
  /\ pc = "idle"
  /\ CallSearch("Tatooine", "Endor", countdown)

\* The ValueError of find_min_encounters leaves giveMeTheOdds at line 124.
OddsPropagate ==
  /\ pc = "raised"
  /\ pc' = "c3po"
  /\ answer' = Some(<<"giveMeTheOdds", answer[1][2], Raised("ValueError")>>)
  /\ UNCHANGED << galaxy_vars, finder_vars, args_vars, search_vars, call_vars, last_vars, other >>

StoreLastPathOnly ==
  /\ pc = "returned"
  /\ pc' = "c3po"
  /\ last_encounters' = IF result[1][1] = -1 THEN last_encounters ELSE Some(result[1][1])
  /\ last_optimal_path' = result[1][2]
  /\ answer' = Some(<<"giveMeTheOdds", answer[1][2], [odds |-> Odds(result[1][1])]>>)
  /\ UNCHANGED << galaxy_vars, finder_vars, args_vars, search_vars, call_vars, other >>

\* lines 131-142: the result stored for the getters, the odds returned.
StoreLast ==
  /\ pc = "returned"
  /\ pc' = "c3po"
  /\ last_encounters' = Some(result[1][1])
  /\ last_optimal_path' = result[1][2]
  /\ answer' = Some(<<"giveMeTheOdds", answer[1][2], [odds |-> Odds(result[1][1])]>>)
  /\ UNCHANGED << galaxy_vars, finder_vars, args_vars, search_vars, call_vars, other >>

\* c3po.py format_optimal_path, lines 198-222: one line per state of the
\* path, with the action read off the state before it.
FormatLine(path, i) ==
  [day |-> path[i].day,
   action |-> IF i = 1 THEN "Depart from"
              ELSE IF path[i - 1].planet # path[i].planet THEN "Arrive at"
              ELSE IF path[i].fuel > path[i - 1].fuel THEN "Refuel on"
              ELSE IF path[i].fuel = path[i - 1].fuel THEN "Wait on"
              ELSE "At",
   planet |-> path[i].planet,
   fuel |-> path[i].fuel,
   warning |-> i > 1 /\ path[i].encounters > path[i - 1].encounters]

\* format_optimal_path, lines 192-232.
format_optimal_path ==
  IF last_optimal_path = None
  THEN [message |-> "No path calculated yet. Call giveMeTheOdds() first."]
  ELSE IF last_encounters = Some(-1)
  THEN [message |-> "No valid path found within the countdown."]
  ELSE [lines |-> [i \in 1..Len(last_optimal_path[1]) |-> FormatLine(last_optimal_path[1], i)],
        total |-> last_encounters[1],
        probability |-> calculate_success_probability(last_encounters[1])]

\* format_optimal_path called between two giveMeTheOdds calls.
FormatOptimalPath ==
  /\ pc = "c3po"
  /\ answer' = Some(<<"format_optimal_path", << >>, format_optimal_path>>)
  /\ UNCHANGED << galaxy_vars, finder_vars, args_vars, search_vars, call_vars, pc,
                  last_vars, other >>

NextOdds ==
  \/ \E data \in OddsDocs : OddsParse(data)
  \/ OddsUnknownPlanet
  \/ OddsNotConnected
  \/ OddsSearch
  \/ OddsPropagate
  \/ SkipExceeded
  \/ SkipBounded
  \/ ReachDestination
  \/ ExploreActions
  \/ Return
  \/ StoreLast
  \/ FormatOptimalPath

SpecOdds == InitOdds /\ [][NextOdds]_vars

\* ------------------------------------------------ sightings everywhere
\* A sighting on each planet of `places` on each day from 0 to `last`.
AllSightings(places, last) ==
  [i \in 1..(Len(places) * (last + 1)) |->
     BountyHunter(places[((i - 1) \div (last + 1)) + 1], (i - 1) % (last + 1))]

\* Sightings on every planet there is, or on all but Hoth, up to some day.
CrowdedLists ==
  {AllSightings(places, last) :
     places \in {<<"Tatooine", "Hoth", "Endor", "Dagobah">>, <<"Tatooine", "Endor", "Dagobah">>},
     last \in 0..MaxCountdown}

InitCrowded == InitWith(1, CrowdedLists)

SpecCrowded == InitCrowded /\ [][Next]_vars

\* ------------------------------------------------ any two planets
\* The planets a call is made between: two that galaxies have, one that
\* none has; the start may be the destination.
PairPlanets == {"Tatooine", "Endor", "Bespin"}

NextPairs ==
  \/ \E s \in PairPlanets, d \in PairPlanets, c \in 0..MaxCountdown : CallUnknownPlanet(s, d, c)
  \/ \E s \in PairPlanets, d \in PairPlanets, c \in 0..MaxCountdown : CallNotConnected(s, d, c)
  \/ \E s \in PairPlanets, d \in PairPlanets, c \in 0..MaxCountdown : CallSearch(s, d, c)
  \/ SkipExceeded
  \/ SkipBounded
  \/ ReachDestination
  \/ ExploreActions
  \/ Return

InitPairs == InitWith(1, SingleSightings)

SpecPairs == InitPairs /\ [][NextPairs]_vars

\* ------------------------------------------- the inputs listed otherwise
\* The same routes and sightings given in another order: route i of the new
\* list is route order[i] of the old one, its two ends exchanged where
\* flipped[i]; sighting i is sighting hunter_order[i].
Orders(n) ==
  {f \in [1..n -> 1..n] : \A i \in 1..n, j \in 1..n : i # j => f[i] # f[j]}

Reordered(rs, order, flipped) ==
  [i \in 1..Len(rs) |->
     IF flipped[i]
     THEN Route(rs[order[i]].destination, rs[order[i]].origin, rs[order[i]].travel_time)
     ELSE rs[order[i]]]

\* A Galaxy and a PathFinder made anew of the lists reordered, once, after
\* the call on the lists as they were has returned.
Rearrange(order, flipped, hunter_order) ==
  /\ pc = "returned"
  /\ calls_left = 1
  /\ answer = None
  /\ answer' = Some(<<"rearranged", <<order, flipped, hunter_order>>, [built |-> "PathFinder"]>>)
  /\ routes' = Reordered(routes, order, flipped)
  /\ adjacency' = GalaxyAdjacency(routes')
  /\ planets' = GalaxyPlanets(routes')
  /\ bounty_hunters' = [i \in 1..Len(bounty_hunters) |-> bounty_hunters[hunter_order[i]]]
  /\ bounty_hunter_schedule' = GetBountyHunterSchedule(bounty_hunters')
  /\ UNCHANGED << autonomy, args_vars, search_vars, call_vars, pc, last_vars, other >>

RearrangeAnyhow ==
  /\ pc = "returned"
  /\ calls_left = 1
  /\ answer = None
  /\ \E order \in Orders(Len(routes)), flipped \in [1..Len(routes) -> BOOLEAN],
        hunter_order \in Orders(Len(bounty_hunters)) :
          Rearrange(order, flipped, hunter_order)

\* The first call, on the lists as given.
FirstUnknownPlanet ==
  /\ calls_left = 2
  /\ \E c \in 0..MaxCountdown : CallUnknownPlanet("Tatooine", "Endor", c)

FirstNotConnected ==
  /\ calls_left = 2
  /\ \E c \in 0..MaxCountdown : CallNotConnected("Tatooine", "Endor", c)

FirstSearch ==
  /\ calls_left = 2
  /\ \E c \in 0..MaxCountdown : CallSearch("Tatooine", "Endor", c)

\* The same call again, on the lists reordered.
AgainNotConnected ==
  /\ calls_left = 1
  /\ answer # None
  /\ CallNotConnected(start, destination, countdown)

AgainSearch ==
  /\ calls_left = 1
  /\ answer # None
  /\ CallSearch(start, destination, countdown)

NextPermuted ==
  \/ FirstUnknownPlanet
  \/ FirstNotConnected
  \/ FirstSearch
  \/ RearrangeAnyhow
  \/ AgainNotConnected
  \/ AgainSearch
  \/ SkipExceeded
  \/ SkipBounded
  \/ ReachDestination
  \/ ExploreActions
  \/ Return

\* Up to three routes; two sightings, on the way and at the end.
PermutedRouteLists == {rs \in RouteLists : Len(rs) <= 3}

PermutedSightings ==
  {<<BountyHunter("Hoth", 1), BountyHunter("Endor", 2)>>,
   <<BountyHunter("Endor", 1), BountyHunter("Endor", 2)>>}

InitPermuted ==
  /\ InitWith(2, PermutedSightings)
  /\ routes \in PermutedRouteLists

SpecPermuted == InitPermuted /\ [][NextPermuted]_vars

\* ------------------------------------------- a call run on its own
\* The "while queue" loop of lines 122-207 run to its end in one go, from
\* queue q, map vis and best result so far, towards d with deadline c;
\* lines 209-213 make the result of what is left.
RECURSIVE RunLoop(_, _, _, _, _, _)
RunLoop(q, vis, least, best, d, c) ==
  IF q = << >>
  THEN IF least = None THEN <<-1, None>> ELSE <<least[1], best>>
  ELSE LET cur == Head(q)[1]
           path == Head(q)[2]
       IN IF cur.day > c
          THEN RunLoop(Tail(q), vis, least, best, d, c)
          ELSE IF least # None /\ cur.encounters >= least[1]
          THEN RunLoop(Tail(q), vis, least, best, d, c)
          ELSE IF cur.planet = d
          THEN RunLoop(Tail(q), vis, Some(cur.encounters), Some(path), d, c)
          ELSE LET acc == Explore(cur, path, [visited |-> vis, queue |-> Tail(q)])
               IN RunLoop(acc.queue, acc.visited, least, best, d, c)

\* find_min_encounters(s, d, c) on the PathFinder at hand, as a value: what
\* the call returns when nothing else runs, or ValueError.
FindMinEncounters(s, d, c) ==
  IF UnknownPlanet(s, d) THEN ValueError
  ELSE IF ~is_connected(s, d) THEN <<-1, None>>
  ELSE RunLoop(<< <<SearchState(s, 0, autonomy, 0), <<SearchState(s, 0, autonomy, 0)>> >> >>,
               (<<s, 0, autonomy>> :> 0), None, None, d, c)

\* --------------------------------------------- two calls on one galaxy
\* The locals of a find_min_encounters call with the schedule of its
\* PathFinder: what a second call on the same galaxy has of its own.
Locals ==
  [bounty_hunters |-> bounty_hunters,
   bounty_hunter_schedule |-> bounty_hunter_schedule,
   start |-> start, destination |-> destination, countdown |-> countdown,
   pc |-> pc, queue |-> queue, visited |-> visited,
   min_encounters |-> min_encounters, best_path |-> best_path,
   result |-> result, calls_left |-> calls_left, earlier |-> earlier]

SwitchSharingVisited ==
  /\ other # None
  /\ other' = Some(Locals)
  /\ bounty_hunters' = other[1].bounty_hunters
  /\ bounty_hunter_schedule' = other[1].bounty_hunter_schedule
  /\ start' = other[1].start
  /\ destination' = other[1].destination
  /\ countdown' = other[1].countdown
  /\ pc' = other[1].pc
  /\ queue' = other[1].queue
  /\ min_encounters' = other[1].min_encounters
  /\ best_path' = other[1].best_path
  /\ result' = other[1].result
  /\ calls_left' = other[1].calls_left
  /\ earlier' = other[1].earlier
  /\ UNCHANGED << galaxy_vars, autonomy, answer, last_vars, visited >>

\* The scheduler lets the other call run: its locals come in, the locals
\* of the call that ran go out; the galaxy is the one both read.
Switch ==
  /\ other # None
  /\ other' = Some(Locals)
  /\ bounty_hunters' = other[1].bounty_hunters
  /\ bounty_hunter_schedule' = other[1].bounty_hunter_schedule
  /\ start' = other[1].start
  /\ destination' = other[1].destination
  /\ countdown' = other[1].countdown
  /\ pc' = other[1].pc
  /\ queue' = other[1].queue
  /\ visited' = other[1].visited
  /\ min_encounters' = other[1].min_encounters
  /\ best_path' = other[1].best_path
  /\ result' = other[1].result
  /\ calls_left' = other[1].calls_left
  /\ earlier' = other[1].earlier
  /\ UNCHANGED << galaxy_vars, autonomy, answer, last_vars >>

\* The sighting lists of the second call: none, or one day on Hoth.
OtherSightings == {h \in HothSightings : \A i \in 1..Len(h) : h[i].day = 1}

\* The galaxies the two calls share: the links at a day each, or left out,
\* and one with Endor off the way.
SharedRouteLists ==
  ({RoutesOf(times) : times \in [1..Len(Links) -> 0..1]} \ {<< >>})
  \cup {<<[origin |-> "Tatooine", destination |-> "Hoth", travel_time |-> 1], SideRoute>>}

\* Two PathFinders on one galaxy, one call to come on each.
InitShared ==
  /\ routes \in SharedRouteLists
  /\ adjacency = GalaxyAdjacency(routes)
  /\ planets = GalaxyPlanets(routes)
  /\ autonomy \in 1..MaxAutonomy
  /\ bounty_hunters \in OtherSightings
  /\ bounty_hunter_schedule = GetBountyHunterSchedule(bounty_hunters)
  /\ start = "" /\ destination = "" /\ countdown = 0
  /\ pc = "idle"
  /\ queue = << >> /\ visited = << >>
  /\ min_encounters = None /\ best_path = None
  /\ result = None
  /\ calls_left = 1
  /\ earlier = {}
  /\ answer = None
  /\ last_encounters = None /\ last_optimal_path = None
  /\ \E hunters \in OtherSightings :
       other = Some([bounty_hunters |-> hunters,
                     bounty_hunter_schedule |-> GetBountyHunterSchedule(hunters),
                     start |-> "", destination |-> "", countdown |-> 0,
                     pc |-> "idle", queue |-> << >>, visited |-> << >>,
                     min_encounters |-> None, best_path |-> None,
                     result |-> None, calls_left |-> 1, earlier |-> {}])

NextShared ==
  \/ Next
  \/ Switch

SpecShared == InitShared /\ [][NextShared]_vars

\* ------------------------------------- the search without its pre-check
\* find_min_encounters with lines 97-99 left out: the loop is entered for any
\* two planets of the galaxy, connected or not.
CallSearchUnchecked(s, d, c) ==
  /\ Enter(s, d, c)
  /\ ~UnknownPlanet(s, d)
  /\ pc' = "loop"
  /\ queue' = << <<SearchState(s, 0, autonomy, 0), <<SearchState(s, 0, autonomy, 0)>> >> >>
  /\ visited' = (<<s, 0, autonomy>> :> 0)
  /\ min_encounters' = None
  /\ best_path' = None
  /\ result' = None
  /\ UNCHANGED earlier

NextUnchecked ==
  \/ \E s \in Starts, d \in Destinations, c \in 0..MaxCountdown : CallUnknownPlanet(s, d, c)
  \/ \E s \in Starts, d \in Destinations, c \in 0..MaxCountdown : CallSearchUnchecked(s, d, c)
  \/ SkipExceeded
  \/ SkipBounded
  \/ ReachDestination
  \/ ExploreActions
  \/ Return

SpecUnchecked == InitFair /\ [][NextUnchecked]_vars /\ WF_vars(LoopStep)

\* ------------------------------------ queries after the calls are over
\* A PathFinder and its galaxy asked directly once the calls made on the
\* PathFinder are over.
Query(operation, args, outcome) ==
  /\ answer' = Some(<<operation, args, outcome>>)
  /\ UNCHANGED << routes, autonomy, bounty_hunters, args_vars, search_vars, call_vars, pc,
                  last_vars, other >>

CallsOver == calls_left = 0 /\ pc \in {"returned", "raised"}

QueryConnected(a, b) ==
  /\ CallsOver
  /\ Query("is_connected", <<a, b>>, is_connected(a, b))
  /\ UNCHANGED << adjacency, planets, bounty_hunter_schedule >>

QueryNeighbors(planet) ==
  /\ CallsOver
  /\ Query("get_neighbors", <<planet>>, get_neighbors(planet))
  /\ adjacency' = AdjacencyAfterGet(planet)
  /\ UNCHANGED << planets, bounty_hunter_schedule >>

QueryHasPlanet(planet) ==
  /\ CallsOver
  /\ Query("has_planet", <<planet>>, has_planet(planet))
  /\ UNCHANGED << adjacency, planets, bounty_hunter_schedule >>

\* get_all_planets called and `planet` added to the set it returned.
QueryAllPlanets(planet) ==
  /\ CallsOver
  /\ Query("get_all_planets", <<planet>>, get_all_planets \cup {planet})
  /\ planets' = PlanetsAfterCallerAdds(planet)
  /\ UNCHANGED << adjacency, bounty_hunter_schedule >>

QueryPresent(planet, day) ==
  /\ CallsOver
  /\ Query("_has_bounty_hunters", <<planet, day>>, HasBountyHunters(planet, day))
  /\ UNCHANGED << adjacency, planets, bounty_hunter_schedule >>

\* A planet some galaxies have and one that none has.
ProbePlanets == {"Endor", "Bespin"}

NextQueries ==
  \/ Next
  \/ \E a \in {"Tatooine", "Bespin"}, b \in ProbePlanets : QueryConnected(a, b)
  \/ \E planet \in ProbePlanets : QueryNeighbors(planet)
  \/ \E planet \in ProbePlanets : QueryHasPlanet(planet)
  \/ \E planet \in ProbePlanets : QueryAllPlanets(planet)
  \/ \E planet \in {"Hoth", "Bespin"}, day \in QueryDays : QueryPresent(planet, day)

\* One call on the PathFinder, then the queries.
InitQueries == InitWith(1, HothSightings)

SpecQueries == InitQueries /\ [][NextQueries]_vars

\* ------------------------------------------------- legal itineraries
\* What the claims call a legal itinerary, stated on the inputs themselves:
\* the route list, the sighting list, the autonomy and the call's arguments.
Sighting(planet, day) ==
  \E i \in 1..Len(bounty_hunters) :
     bounty_hunters[i].planet = planet /\ bounty_hunters[i].day = day

Counted(s, planet, day) == s.encounters + (IF Sighting(planet, day) THEN 1 ELSE 0)

\* The far end of route r seen from planet p ("" when r does not touch p).
FarEnd(r, p) ==
  IF r.origin = p THEN r.destination ELSE IF r.destination = p THEN r.origin ELSE ""

LegalTravel(s, t) ==
  \E i \in 1..Len(routes) :
     /\ FarEnd(routes[i], s.planet) = t.planet
     /\ routes[i].travel_time <= s.fuel
     /\ t.day = s.day + routes[i].travel_time
     /\ t.fuel = s.fuel - routes[i].travel_time
     /\ t.encounters = Counted(s, t.planet, t.day)

LegalRefuel(s, t) ==
  /\ s.fuel < autonomy
  /\ t.planet = s.planet /\ t.day = s.day + 1 /\ t.fuel = autonomy
  /\ t.encounters = Counted(s, t.planet, t.day)

LegalWait(s, t) ==
  /\ s.fuel = autonomy
  /\ t.planet = s.planet /\ t.day = s.day + 1 /\ t.fuel = autonomy
  /\ t.encounters = Counted(s, t.planet, t.day)

LegalStep(s, t) == LegalTravel(s, t) \/ LegalRefuel(s, t) \/ LegalWait(s, t)

LegalPath(path) ==
  /\ Len(path) >= 1
  /\ path[1] = InitialState
  /\ \A i \in 1..(Len(path) - 1) : LegalStep(path[i], path[i + 1])

LegalNext(s) ==
  {SearchState(FarEnd(routes[i], s.planet), s.day + routes[i].travel_time,
               s.fuel - routes[i].travel_time,
               Counted(s, FarEnd(routes[i], s.planet), s.day + routes[i].travel_time)) :
     i \in {j \in 1..Len(routes) : /\ FarEnd(routes[j], s.planet) # ""
                                   /\ routes[j].travel_time <= s.fuel}}
  \cup
  (IF s.fuel < autonomy \/ s.fuel = autonomy
   THEN {SearchState(s.planet, s.day + 1, autonomy, Counted(s, s.planet, s.day + 1))}
   ELSE {})

\* Every state some legal itinerary is in on a day <= countdown: S grown by
\* the states one legal step after those of `fresh`, until nothing is new.
RECURSIVE LegalClosure(_, _)
LegalClosure(S, fresh) ==
  LET new == {t \in UNION {LegalNext(s) : s \in fresh} : t.day <= countdown} \ S
  IN IF new = {} THEN S ELSE LegalClosure(S \cup new, new)

LegalArrivals ==
  {s \in LegalClosure({InitialState}, {InitialState}) : s.planet = destination}

MinOf(S) == CHOOSE m \in S : \A x \in S : m <= x

ResultCount == result[1][1]
ResultPath == result[1][2]
HasReturned == pc = "returned"
FoundPath == HasReturned /\ ResultCount # -1

\* ---------------------------------------------------------------- claims

\* C1: a returned count k # -1 is the minimum encounter count over all legal
\* itineraries that are at the destination on a day <= deadline.
C1_MinimumEncounters ==
  FoundPath =>
    LET counts == {s.encounters : s \in LegalArrivals}
    IN counts # {} /\ ResultCount = MinOf(counts)

C1_Witness ==
  /\ FoundPath
  /\ ResultCount = 1
  /\ \E s \in LegalArrivals : s.encounters = 2

\* C2: the call returns (-1, None) exactly when no legal itinerary is at the
\* destination by the deadline; otherwise a count >= 0 with a non-empty path.
C2_UnreachableIffNoItinerary ==
  HasReturned =>
    /\ (result = Some(<<-1, None>>)) <=> (LegalArrivals = {})
    /\ result # Some(<<-1, None>>) =>
         /\ ResultCount >= 0
         /\ ResultPath # None
         /\ Len(ResultPath[1]) >= 1

C2_Witness ==
  /\ HasReturned
  /\ result = Some(<<-1, None>>)
  /\ is_connected(start, destination)
  /\ countdown >= 1

\* C3: a returned path is non-empty, starts at (start, 0, autonomy, 0), ends
\* at the destination on a day <= deadline, and the count is the last
\* state's encounters.
C3_PathEndpoints ==
  FoundPath =>
    /\ ResultPath # None
    /\ LET path == ResultPath[1]
       IN /\ Len(path) >= 1
          /\ path[1] = SearchState(start, 0, autonomy, 0)
          /\ path[Len(path)].planet = destination
          /\ path[Len(path)].day <= countdown
          /\ path[Len(path)].encounters = ResultCount

C3_Witness ==
  /\ FoundPath
  /\ Len(ResultPath[1]) >= 3
  /\ ResultPath[1][Len(ResultPath[1])].day = countdown

\* C4: every frontier entry (state, path), the remembered best path and the
\* returned path start at the initial state, end at their state, and every
\* consecutive pair of states is exactly one legal Travel, Refuel or Wait.
C4_PathsAreLegal ==
  /\ pc = "loop" =>
       /\ \A i \in 1..Len(queue) :
            /\ LegalPath(queue[i][2])
            /\ queue[i][2][Len(queue[i][2])] = queue[i][1]
       /\ best_path # None => LegalPath(best_path[1])
  /\ FoundPath => LegalPath(ResultPath[1])

C4_Witness ==
  /\ pc = "loop"
  /\ \E i \in 1..Len(queue) :
        LET path == queue[i][2]
        IN /\ Len(path) >= 4
           /\ \E j \in 1..(Len(path) - 1) : LegalRefuel(path[j], path[j + 1])
           /\ \E j \in 1..(Len(path) - 1) : LegalWait(path[j], path[j + 1])
           /\ \E j \in 1..(Len(path) - 1) : LegalTravel(path[j], path[j + 1])

\* C5 as stated: with encounters == 0 no state of the returned path, the
\* initial one included, is at a location on a day with a sighting there.
C5_NoThreatOnPath ==
  FoundPath /\ ResultCount = 0 =>
    \A i \in 1..Len(ResultPath[1]) :
       ~Sighting(ResultPath[1][i].planet, ResultPath[1][i].day)

\* C5 (amended): with encounters == 0 no state of the returned path after
\* the initial one is at a location on a day with a sighting there; the
\* initial state (start, day 0) is not checked against the sightings.
C5_NoThreatAfterStart ==
  FoundPath /\ ResultCount = 0 =>
    \A i \in 2..Len(ResultPath[1]) :
       ~Sighting(ResultPath[1][i].planet, ResultPath[1][i].day)

C5_Witness ==
  /\ FoundPath /\ ResultCount = 0
  /\ \E s \in LegalArrivals : s.encounters >= 1
  /\ \E i \in 2..Len(ResultPath[1]) : LegalWait(ResultPath[1][i - 1], ResultPath[1][i])

\* C6: along a returned path the encounters start at 0, never decrease and
\* grow by at most 1 per step.
C6_EncountersMonotone ==
  FoundPath =>
    /\ ResultPath[1][1].encounters = 0
    /\ \A i \in 1..(Len(ResultPath[1]) - 1) :
         LET grown == ResultPath[1][i + 1].encounters - ResultPath[1][i].encounters
         IN grown = 0 \/ grown = 1

C6_Witness ==
  /\ FoundPath
  /\ ResultCount = 2
  /\ Len(ResultPath[1]) >= 4

\* C7: for two calls with the same start and destination and deadlines
\* d1 <= d2, a count k1 # -1 at d1 means a count k2 # -1 with k2 <= k1 at d2.
C7_DeadlineMonotone ==
  \A a \in earlier, b \in earlier :
     ( /\ a.start = b.start /\ a.destination = b.destination
       /\ a.countdown <= b.countdown
       /\ a.encounters # -1 )
     => (b.encounters # -1 /\ b.encounters <= a.encounters)

C7_Witness ==
  \E a \in earlier, b \in earlier :
     /\ a.countdown < b.countdown
     /\ a.encounters # -1
     /\ b.encounters < a.encounters

\* C8: with an empty sighting list the call returns 0 encounters, and the
\* odds are exactly 1, whenever some legal itinerary is at the destination
\* by the deadline.
C8_NoSightingsNoEncounters ==
  (HasReturned /\ bounty_hunters = << >> /\ LegalArrivals # {}) =>
    (ResultCount = 0 /\ Odds(ResultCount) = <<1, 1>>)

C8_Witness ==
  /\ HasReturned /\ bounty_hunters = << >> /\ LegalArrivals # {}
  /\ Len(ResultPath[1]) >= 3

\* A location of the graph: an endpoint of some listed route.
InGraph(planet) ==
  \E i \in 1..Len(routes) : routes[i].origin = planet \/ routes[i].destination = planet

\* C9: start and destination both in the graph but not connected: the call
\* returns (-1, None) and does not raise.
C9_NotConnectedReturnsUnreachable ==
  ( /\ pc # "idle"
    /\ InGraph(start) /\ InGraph(destination)
    /\ ~is_connected(start, destination) )
  => (pc = "returned" /\ result = Some(<<-1, None>>))

C9_Witness ==
  /\ pc = "returned"
  /\ InGraph(start) /\ InGraph(destination)
  /\ ~is_connected(start, destination)
  /\ bounty_hunters # << >>

\* C10: a start or destination that is not in the graph makes the call
\* raise before any search state exists; it returns neither (-1, None) nor
\* a path.
C10_UnknownPlanetRaises ==
  (pc # "idle" /\ (~InGraph(start) \/ ~InGraph(destination))) =>
    /\ pc = "raised"
    /\ result = None
    /\ queue = << >> /\ visited = << >>
    /\ min_encounters = None /\ best_path = None
    /\ earlier = {}

C10_Witness ==
  /\ pc = "raised"
  /\ InGraph(start) /\ ~InGraph(destination)

Created(cur) ==
  {TravelState(cur, get_neighbors(cur.planet)[i][1], get_neighbors(cur.planet)[i][2]) :
     i \in {j \in 1..Len(get_neighbors(cur.planet)) :
              CanJump(get_neighbors(cur.planet)[j][2], cur.fuel)}}
  \cup (IF CanRefuel(cur) THEN {RefuelState(cur)} ELSE {})
  \cup (IF CanWait(cur) THEN {WaitState(cur)} ELSE {})

WithinLimits(state) ==
  /\ ~SearchStateRejected(state)
  /\ state.fuel <= autonomy

\* C13: with start and destination in the graph the call never raises: the
\* initial state, every state in the frontier and on its paths, and every
\* state the next expansion constructs has day >= 0, 0 <= fuel <= autonomy
\* and encounters >= 0, and a call that ended returned a path or (-1, None).
C13_SearchNeverRaises ==
  (pc # "idle" /\ InGraph(start) /\ InGraph(destination)) =>
    /\ pc \in {"loop", "returned"}
    /\ WithinLimits(InitialState)
    /\ \A i \in 1..Len(queue) :
         /\ WithinLimits(queue[i][1])
         /\ \A j \in 1..Len(queue[i][2]) : WithinLimits(queue[i][2][j])
         /\ \A state \in Created(queue[i][1]) : WithinLimits(state)
    /\ \A key \in DOMAIN visited :
         key[2] >= 0 /\ key[3] >= 0 /\ key[3] <= autonomy /\ visited[key] >= 0
    /\ pc = "returned" =>
         \/ result = Some(<<-1, None>>)
         \/ /\ ResultCount >= 0
            /\ ResultPath # None
            /\ \A j \in 1..Len(ResultPath[1]) : WithinLimits(ResultPath[1][j])

C13_Witness ==
  /\ pc = "loop"
  /\ \E i \in 1..Len(queue) :
        /\ queue[i][1].fuel = 0
        /\ queue[i][1].encounters >= 1
        /\ \E j \in 1..Len(get_neighbors(queue[i][1].planet)) :
              ~CanJump(get_neighbors(queue[i][1].planet)[j][2], queue[i][1].fuel)

\* C14: a call that entered its loop returns: the frontier becomes empty.
\* On the way a state is expanded only on a day <= deadline, every frontier
\* state has fuel <= autonomy, and an iteration records a (location, day,
\* fuel) triple anew only with a strictly lower encounter count than before.
C14_Terminates ==
  /\ (pc = "loop") ~> (pc = "returned" /\ queue = << >>)
  /\ [][ (pc = "loop" /\ pc' = "loop") =>
          /\ Len(queue') > Len(queue) - 1 =>
                (~Exceeded(Head(queue)[1]) /\ Head(queue)[1].fuel <= autonomy)
          /\ \A key \in DOMAIN visited :
                key \in DOMAIN visited' /\ visited'[key] <= visited[key]
          /\ \A i \in Len(queue)..Len(queue') :
                LET state == queue'[i][1]
                IN /\ visited'[Key(state)] = state.encounters
                   /\ Key(state) \in DOMAIN visited =>
                        state.encounters < visited[Key(state)] ]_vars

\* A triple is in the frontier twice, the later entry with fewer encounters.
C14_Witness ==
  /\ pc = "loop"
  /\ \E i \in 1..Len(queue), j \in 1..Len(queue) :
        /\ i < j
        /\ Key(queue[i][1]) = Key(queue[j][1])
        /\ queue[j][1].encounters < queue[i][1].encounters

\* The operation called last on its own, its arguments and what it yielded.
Asked(operation) == answer # None /\ answer[1][1] = operation
Args == answer[1][2]
Outcome == answer[1][3]

\* The planets some sequence of routes of rs joins to one of S, S included.
RECURSIVE ReachFrom(_, _)
ReachFrom(rs, S) ==
  LET next == S \cup ({FarEnd(rs[i], p) : i \in 1..Len(rs), p \in S} \ {""})
  IN IF next = S THEN S ELSE ReachFrom(rs, next)

\* C15: for a and b in the graph is_connected(a, b) is true exactly when
\* routes, followed in either direction, lead from a to b; it is false when
\* a or b is not in the graph; is_connected(b, a) gives the same; and the
\* call ends with a boolean on graphs with cycles, self-loops and parallel
\* routes.
C15_ConnectedIffReachable ==
  Asked("is_connected") =>
    /\ Outcome \in BOOLEAN
    /\ Outcome = ( /\ InGraph(Args[1]) /\ InGraph(Args[2])
                   /\ Args[2] \in ReachFrom(routes, {Args[1]}) )
    /\ Outcome = is_connected(Args[2], Args[1])

C15_Witness ==
  /\ Asked("is_connected")
  /\ Outcome = TRUE
  /\ Args[1] # Args[2]
  /\ \A i \in 1..Len(routes) : FarEnd(routes[i], Args[1]) # Args[2]
  /\ \E i \in 1..Len(routes) : routes[i].origin = routes[i].destination
  /\ \E i \in 1..Len(routes), j \in 1..Len(routes) :
        i # j /\ routes[i].origin = routes[j].destination
              /\ routes[i].destination = routes[j].origin

\* C16 as stated: is_connected(a, a) is true for every identifier a.
C16_SelfConnected ==
  (Asked("is_connected") /\ Args[1] = Args[2]) => Outcome = TRUE

\* C16 (amended): is_connected(a, a) is true for every location a of the
\* graph.
C16_SelfConnectedInGraph ==
  (Asked("is_connected") /\ Args[1] = Args[2] /\ InGraph(Args[1])) => Outcome = TRUE

C16_Witness ==
  /\ Asked("is_connected") /\ Args[1] = Args[2] /\ InGraph(Args[1])
  /\ Outcome = TRUE
  /\ \A i \in 1..Len(routes) : routes[i].origin # routes[i].destination

Count(seq, x) == Cardinality({i \in 1..Len(seq) : seq[i] = x})

Endpoints(rs) == UNION {{rs[i].origin, rs[i].destination} : i \in 1..Len(rs)}

\* What the claim says of the galaxy (adj, pl) built from the route list rs.
Mirrors(adj, pl, rs) ==
  LET nbrs(x) == IF x \in DOMAIN adj THEN adj[x] ELSE << >>
  IN /\ \A x \in QueryPlanets, y \in QueryPlanets, t \in 1..MaxTravelTime :
          /\ Count(nbrs(x), <<y, t>>) = Count(rs, Route(x, y, t)) + Count(rs, Route(y, x, t))
          /\ Count(nbrs(x), <<y, t>>) = Count(nbrs(y), <<x, t>>)
     /\ \A x \in DOMAIN adj : \A k \in 1..Len(adj[x]) :
          \E i \in 1..Len(rs) :
             rs[i] \in {Route(x, adj[x][k][1], adj[x][k][2]), Route(adj[x][k][1], x, adj[x][k][2])}
     /\ pl = Endpoints(rs)

\* C17: in a galaxy built from a route list, (y, t) is among the neighbours
\* of x as many times as the list has a route (x, y, t) or (y, x, t), so
\* once per route and direction, parallel routes all kept; has_planet and
\* get_all_planets hold exactly the endpoints of the routes.
C17_AdjacencyMirrorsRoutes ==
  /\ pc \in {"c3po", "ready"} =>
       /\ Mirrors(adjacency, planets, routes)
       /\ \A x \in QueryPlanets : has_planet(x) <=> x \in Endpoints(routes)
       /\ get_all_planets = Endpoints(routes)
  /\ (Asked("Galaxy") /\ ~IsRaised(Outcome)) =>
       Mirrors(Outcome.adjacency, Outcome.planets, Args[1])
  /\ Asked("get_neighbors") =>
       \A y \in QueryPlanets, t \in 1..MaxTravelTime :
          Count(Outcome, <<y, t>>) =
            Count(routes, Route(Args[1], y, t)) + Count(routes, Route(y, Args[1], t))
  /\ Asked("has_planet") => (Outcome <=> InGraph(Args[1]))
  /\ Asked("get_all_planets") => Outcome = Endpoints(routes)

C17_Witness ==
  /\ Asked("get_neighbors")
  /\ Args[1] = "Hoth"
  /\ Len(Outcome) >= 3
  /\ \E i \in 1..Len(Outcome), j \in 1..Len(Outcome) :
        Outcome[i][1] = "Tatooine" /\ Outcome[j][1] = "Tatooine" /\ Outcome[i][2] < Outcome[j][2]
  /\ "Dagobah" \in DOMAIN adjacency
  /\ Count(adjacency["Dagobah"], <<"Dagobah", 1>>) = 2

\* What makes a "routes" entry, and a falcon document, valid.
ValidRouteEntry(entry) ==
  /\ "origin" \in DOMAIN entry /\ entry.origin # ""
  /\ "destination" \in DOMAIN entry /\ entry.destination # ""
  /\ \/ "travel_time" \in DOMAIN entry /\ entry.travel_time > 0
     \/ /\ "travel_time" \in DOMAIN entry => entry.travel_time = 0
        /\ "travelTime" \in DOMAIN entry /\ entry.travelTime > 0

ValidFalconDoc(doc) ==
  /\ "autonomy" \in DOMAIN doc /\ IsInt(doc.autonomy) /\ doc.autonomy.int > 0
  /\ "routes" \in DOMAIN doc /\ IsList(doc.routes) /\ doc.routes.list # << >>
  /\ \A i \in 1..Len(doc.routes.list) : ValidRouteEntry(doc.routes.list[i])

ValidHunterEntry(entry) ==
  /\ "planet" \in DOMAIN entry /\ entry.planet # ""
  /\ "day" \in DOMAIN entry /\ entry.day >= 0

ValidEmpireDoc(doc) ==
  /\ "countdown" \in DOMAIN doc /\ IsInt(doc.countdown) /\ doc.countdown.int >= 0
  /\ "bounty_hunters" \in DOMAIN doc /\ IsList(doc.bounty_hunters)
  /\ \A i \in 1..Len(doc.bounty_hunters.list) : ValidHunterEntry(doc.bounty_hunters.list[i])

RaisedAs(exception) == IsRaised(Outcome) /\ Outcome.raised = exception

\* C18: a constructor given an empty route list, an autonomy <= 0, a travel
\* time <= 0, an empty endpoint, a negative day or a negative countdown
\* raises ValueError and yields no object; C3PO(...) and giveMeTheOdds given
\* a document with such data, or without its "autonomy", raise ParseError;
\* a C3PO that exists holds valid data only, and nothing runs on a C3PO
\* whose construction was rejected.
C18_InvalidDataRejected ==
  /\ [][pc # "rejected"]_vars
  /\ [] /\ Asked("Route") =>
            /\ IsRaised(Outcome) <=> (Args[1] = "" \/ Args[2] = "" \/ Args[3] <= 0)
            /\ IsRaised(Outcome) => RaisedAs("ValueError")
        /\ Asked("BountyHunter") =>
            /\ IsRaised(Outcome) <=> (Args[1] = "" \/ Args[2] < 0)
            /\ IsRaised(Outcome) => RaisedAs("ValueError")
        /\ Asked("MillenniumFalconData") =>
            /\ IsRaised(Outcome) <=> (Args[1] <= 0 \/ Args[2] = << >>)
            /\ IsRaised(Outcome) => RaisedAs("ValueError")
        /\ Asked("EmpireData") =>
            /\ IsRaised(Outcome) <=> Args[1] < 0
            /\ IsRaised(Outcome) => RaisedAs("ValueError")
        /\ Asked("Galaxy") =>
            /\ IsRaised(Outcome) <=> Args[1] = << >>
            /\ IsRaised(Outcome) => RaisedAs("ValueError")
        /\ Asked("C3PO") =>
            /\ IsRaised(Outcome) <=> ~ValidFalconDoc(Args)
            /\ IsRaised(Outcome) <=> pc = "rejected"
            /\ IsRaised(Outcome) => RaisedAs("ParseError")
        /\ pc = "rejected" =>
            /\ Asked("C3PO")
            /\ routes = << >> /\ adjacency = << >> /\ planets = {}
            /\ bounty_hunter_schedule = << >> /\ queue = << >> /\ result = None
        /\ pc \in {"c3po", "ready"} =>
            /\ autonomy > 0
            /\ routes # << >>
            /\ \A i \in 1..Len(routes) :
                 /\ routes[i].origin # "" /\ routes[i].destination # ""
                 /\ routes[i].travel_time > 0
        /\ Asked("giveMeTheOdds") =>
            /\ IsRaised(Outcome) <=> ~ValidEmpireDoc(Args)
            /\ IsRaised(Outcome) <=> pc = "c3po"
            /\ IsRaised(Outcome) => RaisedAs("ParseError")
        /\ pc = "ready" =>
            /\ countdown >= 0
            /\ \A i \in 1..Len(bounty_hunters) :
                 bounty_hunters[i].planet # "" /\ bounty_hunters[i].day >= 0

C18_Witness ==
  /\ pc = "rejected"
  /\ Asked("C3PO")
  /\ RaisedAs("ParseError")
  /\ "autonomy" \in DOMAIN Args /\ IsInt(Args.autonomy) /\ Args.autonomy.int = -1
  /\ IsList(Args.routes) /\ Args.routes.list # << >>

\* C19: get_neighbors of a location that is not in the graph yields the
\* empty sequence and leaves the graph as it was: the location is in
\* neither structure afterwards, however many such calls came before.
C19_UnknownNeighborsEmpty ==
  /\ [][ (Asked("get_neighbors")' /\ ~InGraph(answer'[1][2][1])) =>
          /\ answer'[1][3] = << >>
          /\ planets' = planets
          /\ adjacency' = adjacency ]_vars
  /\ [](pc = "c3po" =>
          \A x \in QueryPlanets :
             ~InGraph(x) => (~has_planet(x) /\ x \notin DOMAIN adjacency
                             /\ get_all_planets = Endpoints(routes)))

C19_Witness ==
  /\ Asked("get_neighbors")
  /\ ~InGraph(Args[1])
  /\ Args[1] = "Dagobah"
  /\ Outcome = << >>
  /\ ~has_planet(Args[1])

\* C20: the schedule answers present(location, day) true exactly when the
\* sighting list has an entry with that location and that day; a sighting
\* listed twice counts once, a step adding 0 or 1 encounter; with an empty
\* list every answer is false.
C20_PresentIffSighted ==
  /\ pc = "ready" =>
       \A p \in SchedulePlanets, d \in QueryDays :
          /\ HasBountyHunters(p, d) <=> Sighting(p, d)
          /\ Encounter(p, d) = (IF Sighting(p, d) THEN 1 ELSE 0)
  /\ Asked("_has_bounty_hunters") =>
       /\ Outcome \in BOOLEAN
       /\ Outcome <=> Sighting(Args[1], Args[2])
       /\ bounty_hunters = << >> => Outcome = FALSE

C20_Witness ==
  /\ Asked("_has_bounty_hunters")
  /\ Outcome = TRUE
  /\ Len(bounty_hunters) = 2
  /\ bounty_hunters[1] = bounty_hunters[2]
  /\ Encounter(Args[1], Args[2]) = 1

\* C21: with a deadline of 0 and start # destination the call returns
\* (-1, None), and the odds are 0, whatever the routes, the autonomy and the
\* sightings.
C21_ZeroCountdownUnreachable ==
  (HasReturned /\ countdown = 0 /\ start # destination) =>
    /\ result = Some(<<-1, None>>)
    /\ Odds(ResultCount) = <<0, 1>>

\* The search ran, found Endor one jump away, and still returned (-1, None).
C21_Witness ==
  /\ HasReturned /\ countdown = 0 /\ start # destination
  /\ result = Some(<<-1, None>>)
  /\ is_connected(start, destination)
  /\ \E key \in DOMAIN visited : key[1] = destination /\ key[2] = 1

\* A step of the loop from one dequeue to the next.
LoopToLoop == pc = "loop" /\ pc' = "loop"

\* The states an iteration appended to the queue.
Enqueued == {queue'[i][1] : i \in Len(queue)..Len(queue')}

Expandable(state) == ~Exceeded(state) /\ ~Bounded(state) /\ ~AtDestination(state)

\* C23 as stated: no state is dequeued after a state with a strictly
\* larger day.
C23_DayOrder ==
  [][ (LoopToLoop /\ queue # << >> /\ queue' # << >>) =>
        Head(queue')[1].day >= Head(queue)[1].day ]_vars

\* C23 (amended): no state is dequeued after a state that more actions led
\* to (the queue is explored level by level), and along every frontier path
\* the day grows with every action.
C23_LevelOrder ==
  /\ [][ (LoopToLoop /\ queue # << >> /\ queue' # << >>) =>
          Len(Head(queue')[2]) >= Len(Head(queue)[2]) ]_vars
  /\ [](pc = "loop" =>
          \A i \in 1..Len(queue) : \A j \in 1..(Len(queue[i][2]) - 1) :
             queue[i][2][j + 1].day > queue[i][2][j].day)

C23_Witness ==
  /\ pc = "loop"
  /\ Len(queue) >= 2
  /\ queue[1][1].day > queue[2][1].day
  /\ Len(queue[1][2]) = Len(queue[2][2])
  /\ Len(queue[1][2]) >= 3

\* C24 as stated: the queue holds at most one entry per (location, day,
\* fuel) triple.
C24_OneEntryPerTriple ==
  pc = "loop" =>
    \A i \in 1..Len(queue), j \in 1..Len(queue) :
       i < j => Key(queue[i][1]) # Key(queue[j][1])

\* C24 (amended): of two queue entries with the same (location, day, fuel)
\* triple the later one has strictly fewer encounters, so the queue holds
\* at most one entry per triple and count, and at most one entry per triple
\* with the count recorded for it.
C24_OneLiveEntryPerTriple ==
  pc = "loop" =>
    /\ \A i \in 1..Len(queue), j \in 1..Len(queue) :
         (i < j /\ Key(queue[i][1]) = Key(queue[j][1])) =>
           queue[j][1].encounters < queue[i][1].encounters
    /\ \A key \in DOMAIN visited :
         Cardinality({i \in 1..Len(queue) :
                        /\ Key(queue[i][1]) = key
                        /\ queue[i][1].encounters = visited[key]}) <= 1

C24_Witness ==
  /\ pc = "loop"
  /\ \E i \in 1..Len(queue), j \in 1..Len(queue) :
        /\ i < j
        /\ Key(queue[i][1]) = Key(queue[j][1])
        /\ queue[j][1].encounters = visited[Key(queue[j][1])]
        /\ queue[i][1].encounters > visited[Key(queue[i][1])]

\* C25: an iteration enqueues a successor exactly when its (location, day,
\* fuel) triple has no recorded value or a strictly higher one; the value
\* recorded for a triple never increases and is the minimum of what was
\* recorded and what the iteration enqueued for it; every queue entry has
\* at least the encounters recorded for its triple.
C25_EnqueuedIffStrictlyLower ==
  /\ [](pc = "loop" =>
          \A i \in 1..Len(queue) :
             /\ Key(queue[i][1]) \in DOMAIN visited
             /\ queue[i][1].encounters >= visited[Key(queue[i][1])])
  /\ [][ (LoopToLoop /\ queue # << >>) =>
          LET cur == Head(queue)[1]
              successors == IF Expandable(cur) THEN Created(cur) ELSE {}
          IN /\ Enqueued \subseteq successors
             /\ \A state \in successors :
                  state \in Enqueued <=>
                    \/ Key(state) \notin DOMAIN visited
                    \/ state.encounters < visited[Key(state)]
             /\ DOMAIN visited \subseteq DOMAIN visited'
             /\ \A key \in DOMAIN visited' :
                  visited'[key] =
                    MinOf((IF key \in DOMAIN visited THEN {visited[key]} ELSE {})
                          \cup {state.encounters : state \in {e \in Enqueued : Key(e) = key}})
     ]_vars

\* The next expansion skips one successor as no better than recorded and
\* enqueues another for a triple recorded before.
C25_Witness ==
  /\ pc = "loop" /\ queue # << >>
  /\ Expandable(Head(queue)[1])
  /\ \E state \in Created(Head(queue)[1]) :
        Key(state) \in DOMAIN visited /\ state.encounters >= visited[Key(state)]
  /\ \E state \in Created(Head(queue)[1]) :
        Key(state) \in DOMAIN visited /\ state.encounters < visited[Key(state)]

\* The destination is on a path as its last state only.
EndsAtMost(path) == \A j \in 1..(Len(path) - 1) : path[j].planet # destination

\* C26: an iteration that dequeues a state at the destination generates no
\* successor of it, so on every frontier path, on the remembered path and
\* on the returned path the destination is the last state only.
C26_DestinationNotExpanded ==
  /\ [][ (LoopToLoop /\ queue # << >> /\ AtDestination(Head(queue)[1])) =>
          (queue' = Tail(queue) /\ visited' = visited) ]_vars
  /\ [](pc = "loop" =>
          /\ \A i \in 1..Len(queue) : EndsAtMost(queue[i][2])
          /\ best_path # None => EndsAtMost(best_path[1]))
  /\ [](FoundPath => EndsAtMost(ResultPath[1]))

\* A state at the destination, in time and better than the best known, with
\* fuel for a jump onward, is about to be dequeued.
C26_Witness ==
  /\ pc = "loop" /\ queue # << >>
  /\ AtDestination(Head(queue)[1])
  /\ ~Exceeded(Head(queue)[1]) /\ ~Bounded(Head(queue)[1])
  /\ Head(queue)[1].day < countdown
  /\ \E i \in 1..Len(get_neighbors(destination)) :
        CanJump(get_neighbors(destination)[i][2], Head(queue)[1].fuel)

\* C27: during the search the best-known count never increases, and the
\* count and the remembered path change only when a state at the
\* destination with day <= deadline and strictly fewer encounters is
\* dequeued, to that state's count and path; a destination state with an
\* equal count dequeued later replaces nothing, and what is returned is the
\* remembered path.
C27_BestOnlyImproves ==
  /\ [][ LoopToLoop =>
          /\ min_encounters # None =>
               (min_encounters' # None /\ min_encounters'[1] <= min_encounters[1])
          /\ (min_encounters' # min_encounters \/ best_path' # best_path) =>
               /\ queue # << >>
               /\ Head(queue)[1].planet = destination
               /\ Head(queue)[1].day <= countdown
               /\ min_encounters # None => Head(queue)[1].encounters < min_encounters[1]
               /\ min_encounters' = Some(Head(queue)[1].encounters)
               /\ best_path' = Some(Head(queue)[2]) ]_vars
  /\ [](FoundPath =>
          /\ pc = "returned"
          /\ min_encounters = Some(ResultCount)
          /\ ResultPath = best_path)

\* A second destination state with the best-known count, on another path,
\* is about to be dequeued.
C27_Witness ==
  /\ pc = "loop" /\ queue # << >>
  /\ min_encounters # None
  /\ Head(queue)[1].planet = destination
  /\ Head(queue)[1].day <= countdown
  /\ Head(queue)[1].encounters = min_encounters[1]
  /\ Head(queue)[2] # best_path[1]

\* C22: both getters of a C3PO hold None as long as no giveMeTheOdds call
\* has returned; a call that returns stores the result of its search (-1
\* with no path, or a count k >= 0 with a path whose last state has k
\* encounters), and every other step, a call that raises included, leaves
\* both as they were.
C22_LastResultKept ==
  /\ [](earlier = {} => (last_encounters = None /\ last_optimal_path = None))
  /\ [](last_encounters # None =>
          IF last_encounters[1] = -1 THEN last_optimal_path = None
          ELSE /\ last_encounters[1] >= 0
               /\ last_optimal_path # None
               /\ last_optimal_path[1][Len(last_optimal_path[1])].encounters
                    = last_encounters[1])
  /\ [][ IF pc = "returned" /\ pc' = "c3po"
         THEN /\ Asked("giveMeTheOdds")' /\ ~IsRaised(Outcome')
              /\ last_encounters' = Some(ResultCount)
              /\ last_optimal_path' = ResultPath
         ELSE UNCHANGED last_vars ]_vars
  /\ [][ (answer' # answer /\ Asked("giveMeTheOdds")' /\ IsRaised(Outcome')) =>
          UNCHANGED last_vars ]_vars

\* A call has raised on a C3PO that keeps the count and path of the call
\* before it.
C22_Witness ==
  /\ pc = "c3po"
  /\ Asked("giveMeTheOdds") /\ IsRaised(Outcome)
  /\ last_encounters # None
  /\ last_encounters[1] >= 1
  /\ last_optimal_path # None

\* The search of find_min_encounters with Wait allowed on any tank: the
\* third action of an expansion keeps the location and the fuel and takes
\* a day, whatever the fuel is.
WaitAnyTank(cur, path, acc) ==
  Visit(SearchState(cur.planet, cur.day + 1, cur.fuel,
                    cur.encounters + Encounter(cur.planet, cur.day + 1)), path, acc)

ExploreWaitAnyTank(cur, path, acc) ==
  WaitAnyTank(cur, path,
              Refuel(cur, path, Travel(get_neighbors(cur.planet), 1, cur, path, acc)))

\* Its loop, run to the end from queue q, map vis and best result so far.
RECURSIVE LoopWaitAnyTank(_, _, _, _)
LoopWaitAnyTank(q, vis, least, best) ==
  IF q = << >>
  THEN [encounters |-> IF least = None THEN -1 ELSE least[1],
        path |-> IF least = None THEN None ELSE best,
        visited |-> vis]
  ELSE LET cur == Head(q)[1]
           path == Head(q)[2]
       IN IF cur.day > countdown
          THEN LoopWaitAnyTank(Tail(q), vis, least, best)
          ELSE IF least # None /\ cur.encounters >= least[1]
          THEN LoopWaitAnyTank(Tail(q), vis, least, best)
          ELSE IF cur.planet = destination
          THEN LoopWaitAnyTank(Tail(q), vis, Some(cur.encounters), Some(path))
          ELSE LET acc == ExploreWaitAnyTank(cur, path, [visited |-> vis, queue |-> Tail(q)])
               IN LoopWaitAnyTank(acc.queue, acc.visited, least, best)

\* What it returns for the arguments of the call that has returned.
SearchWaitAnyTank ==
  IF ~is_connected(start, destination)
  THEN [encounters |-> -1, path |-> None, visited |-> << >>]
  ELSE LoopWaitAnyTank(<< <<InitialState, <<InitialState>> >> >>,
                       (Key(InitialState) :> 0), None, None)

\* C28: the search that also waits on a tank that is not full returns the
\* same minimum encounter count, and -1 for the same calls, as
\* find_min_encounters.
C28_DryWaitChangesNothing ==
  HasReturned =>
    /\ SearchWaitAnyTank.encounters = ResultCount
    /\ (SearchWaitAnyTank.path = None) <=> (ResultPath = None)

\* A call has returned a path with an encounter where the other search
\* reached, by waiting on a tank not full, states this one never recorded.
C28_Witness ==
  /\ FoundPath
  /\ ResultCount >= 1
  /\ \E key \in DOMAIN SearchWaitAnyTank.visited :
        key \notin DOMAIN visited /\ key[3] < autonomy

\* C29: the search run without the is_connected pre-check returns what
\* find_min_encounters returns: (-1, None) when is_connected is false, which
\* it always gets to, and otherwise -1 or the minimum over the legal
\* itineraries as find_min_encounters does.
C29_PreCheckChangesNothing ==
  /\ [](HasReturned =>
          /\ ~is_connected(start, destination) => result = Some(<<-1, None>>)
          /\ ResultCount = IF LegalArrivals = {} THEN -1
                           ELSE MinOf({s.encounters : s \in LegalArrivals})
          /\ (ResultPath = None) <=> (ResultCount = -1))
  /\ (pc = "loop" /\ ~is_connected(start, destination))
       ~> (HasReturned /\ result = Some(<<-1, None>>))

\* The search has run to its end, through several states, between two
\* planets of the galaxy that no route connects.
C29_Witness ==
  /\ HasReturned
  /\ has_planet(start) /\ has_planet(destination)
  /\ ~is_connected(start, destination)
  /\ Cardinality(DOMAIN visited) >= 4
  /\ \E key \in DOMAIN visited : key[1] # start

\* C30: no call of find_min_encounters and no query changes the galaxy or
\* the schedule: both stay what construction made of the route list and of
\* the sighting list, and after the calls, failing ones included,
\* get_neighbors, has_planet, get_all_planets and the schedule lookup answer
\* from the route list and the sighting list alone, also for locations the
\* galaxy lacks and after the caller has added a planet to the set that
\* get_all_planets returned.
C30_GalaxyAndScheduleKept ==
  /\ [][ UNCHANGED << routes, bounty_hunters, adjacency, planets,
                      bounty_hunter_schedule >> ]_vars
  /\ [](/\ adjacency = GalaxyAdjacency(routes)
        /\ planets = GalaxyPlanets(routes)
        /\ bounty_hunter_schedule = GetBountyHunterSchedule(bounty_hunters))
  /\ [](Asked("get_neighbors") =>
          Outcome = IF Args[1] \in DOMAIN GalaxyAdjacency(routes)
                    THEN GalaxyAdjacency(routes)[Args[1]] ELSE << >>)
  /\ [](Asked("has_planet") => (Outcome <=> Args[1] \in Endpoints(routes)))
  /\ [](Asked("get_all_planets") => Outcome = Endpoints(routes) \cup {Args[1]})
  /\ [](Asked("is_connected") =>
          (Outcome <=> /\ Args[1] \in Endpoints(routes)
                       /\ Args[2] \in ReachFrom(routes, {Args[1]})))
  /\ [](Asked("_has_bounty_hunters") => (Outcome <=> Sighting(Args[1], Args[2])))

\* After a call that raised, the caller has added a planet the galaxy lacks
\* to the set get_all_planets returned.
C30_Witness ==
  /\ pc = "raised" /\ calls_left = 0
  /\ Asked("get_all_planets")
  /\ Args[1] \notin planets
  /\ Args[1] \in Outcome

\* C31: of two find_min_encounters calls interleaved step by step on one
\* galaxy, each with its own queue, visited map and best result so far,
\* each returns what it returns when it runs on its own.
C31_InterleavedAsAlone ==
  [](HasReturned => result = Some(FindMinEncounters(start, destination, countdown)))

\* A call has returned a path with an encounter while the other call, with
\* another sighting list, is in the middle of its loop.
C31_Witness ==
  /\ FoundPath
  /\ ResultCount >= 1
  /\ other # None
  /\ other[1].pc = "loop"
  /\ other[1].bounty_hunters # bounty_hunters
  /\ Len(other[1].queue) >= 2
  /\ other[1].min_encounters = None

\* C32: after a giveMeTheOdds call that found no path format_optimal_path
\* returns 'No valid path found within the countdown.', and it returns 'No
\* path calculated yet. Call giveMeTheOdds() first.' only on a C3PO no
\* giveMeTheOdds call of which has completed.
C32_NoPathMessage ==
  Asked("format_optimal_path") =>
    /\ last_encounters = Some(-1) =>
         ("message" \in DOMAIN Outcome
            /\ Outcome.message = "No valid path found within the countdown.")
    /\ ("message" \in DOMAIN Outcome
          /\ Outcome.message = "No path calculated yet. Call giveMeTheOdds() first.")
         => last_encounters = None

\* The latest day of a sighting, 0 when there is none.
LatestSighting ==
  IF bounty_hunters = << >> THEN 0
  ELSE CHOOSE day \in {bounty_hunters[i].day : i \in 1..Len(bounty_hunters)} :
         \A i \in 1..Len(bounty_hunters) : bounty_hunters[i].day <= day

\* The days on which a legal itinerary, sighted or not, is at the destination.
ArrivalDays == {s.day : s \in LegalArrivals}

\* C33: when no sighting is at the start and the fuel lets the destination be
\* reached in T days, a deadline of at least the latest sighting day plus T
\* makes find_min_encounters return 0 encounters and giveMeTheOdds 1.
C33_LongDeadlineNoEncounter ==
  (/\ HasReturned
   /\ \A i \in 1..Len(bounty_hunters) : bounty_hunters[i].planet # start
   /\ \E T \in ArrivalDays : countdown >= LatestSighting + T) =>
    /\ ResultCount = 0
    /\ Odds(ResultCount) = <<1, 1>>

\* The path returned waits at the start for a sighting to pass that an
\* itinerary without the wait meets.
C33_Witness ==
  /\ FoundPath
  /\ bounty_hunters # << >>
  /\ \A i \in 1..Len(bounty_hunters) : bounty_hunters[i].planet # start
  /\ \E T \in ArrivalDays : countdown >= LatestSighting + T
  /\ ResultCount = 0
  /\ Len(ResultPath[1]) >= 3
  /\ ResultPath[1][2].planet = start
  /\ \E s \in LegalArrivals : s.encounters >= 1

\* Every planet of the galaxy has a sighting on every day up to the deadline.
SightedEverywhere ==
  \A planet \in planets, day \in 0..countdown : Sighting(planet, day)

C35_StartIsDestination ==
  (HasReturned /\ start = destination) =>
    result = Some(<<0, Some(<<SearchState(start, 0, autonomy, 0)>>)>>)

\* A call from a planet to itself has returned, with deadline 0 and a
\* sighting there on day 0.
C35_Witness ==
  /\ HasReturned
  /\ start = destination
  /\ countdown = 0
  /\ Sighting(start, 0)
  /\ DOMAIN visited = {<<start, 0, autonomy>>}

\* C36: the encounter count, and with it whether a path is found at all, is
\* the same for the routes listed in any order, with either end of a route
\* named origin, and for the sightings in any order: a call and the same
\* call on the lists reordered return the same count.
C36_OrderIndependent ==
  \A a \in earlier, b \in earlier : a.encounters = b.encounters

\* The call on the reordered lists has returned the same count, one
\* encounter or more, with another path.
C36_Witness ==
  /\ HasReturned
  /\ calls_left = 0
  /\ \E a \in earlier, b \in earlier :
        /\ a.encounters >= 1
        /\ a.encounters = b.encounters
        /\ a.path # b.path

\* What giveMeTheOdds(E) gives on a C3PO just made of the same route data:
\* the exception it raises, or the count and path it records and the odds
\* it returns.
FreshOdds(E) ==
  LET empire == parse_empire(E)
      found == FindMinEncounters("Tatooine", "Endor", empire.countdown)
  IN IF IsRaised(empire) THEN empire
     ELSE IF found = ValueError THEN Raised("ValueError")
     ELSE [encounters |-> found[1], path |-> found[2], odds |-> Odds(found[1])]

\* C37: whatever giveMeTheOdds calls came before on the C3PO, a call with
\* threat data E works on the galaxy and the schedule that a C3PO just made
\* would work on, and returns the odds, and records the count and the path,
\* of the first call with E on such a C3PO; it raises what that call raises.
C37_HistoryIndependent ==
  (pc = "c3po" /\ Asked("giveMeTheOdds")) =>
    /\ adjacency = GalaxyAdjacency(routes) /\ planets = GalaxyPlanets(routes)
    /\ IF IsRaised(parse_empire(Args))
       THEN Outcome = parse_empire(Args)
       ELSE /\ bounty_hunter_schedule =
                 GetBountyHunterSchedule(parse_empire(Args).bounty_hunters)
            /\ IF IsRaised(FreshOdds(Args))
               THEN Outcome = FreshOdds(Args)
               ELSE /\ "odds" \in DOMAIN Outcome
                    /\ Outcome.odds = FreshOdds(Args).odds
                    /\ last_encounters = Some(FreshOdds(Args).encounters)
                    /\ last_optimal_path = FreshOdds(Args).path

\* The second call on a C3PO has returned odds for a path with an encounter,
\* after a first call that returned another count.
C37_Witness ==
  /\ pc = "c3po" /\ Asked("giveMeTheOdds")
  /\ calls_left = 0
  /\ "odds" \in DOMAIN Outcome
  /\ last_encounters # None /\ last_encounters[1] >= 1
  /\ \E a \in earlier : a.encounters # last_encounters[1] /\ a.encounters >= 0

\* ------------------------------------------------------- c3po_simple.py
\* C3PO.__init__, lines 18-31: graph[planet] is the list of (neighbor, time)
\* pairs, each route appended in both directions, in the order of the file.
\* The time is read by the expression parser.py reads it by, so the routes
\* of the file are the ones kept in `routes`.
RECURSIVE SimpleGraphFrom(_, _, _)
SimpleGraphFrom(rs, i, graph) ==
  IF i > Len(rs) THEN graph
  ELSE LET origin == rs[i].origin
           dest == rs[i].destination
           time == rs[i].travel_time
           with_origin == [p \in DOMAIN graph \cup {origin, dest} |->
                             IF p \in DOMAIN graph THEN graph[p] ELSE << >>]
           forth == [with_origin EXCEPT ![origin] = Append(@, <<dest, time>>)]
       IN SimpleGraphFrom(rs, i + 1, [forth EXCEPT ![dest] = Append(@, <<origin, time>>)])

SimpleGraph == SimpleGraphFrom(routes, 1, << >>)

\* giveMeTheOdds, lines 43-45: the set of (planet, day) pairs of the sightings.
SimpleHuntersSet(hunters) == {<<hunters[i].planet, hunters[i].day>> : i \in 1..Len(hunters)}

\* "if state_key not in visited or visited[state_key] > new_encounters":
\* the key recorded and the state appended. A state is the tuple
\* (planet, day, fuel, encounters); acc is [visited, queue].
SimpleVisit(state, acc) ==
  LET state_key == <<state[1], state[2], state[3]>>
  IN IF state_key \notin DOMAIN acc.visited \/ acc.visited[state_key] > state[4]
     THEN [visited |-> [k \in DOMAIN acc.visited \cup {state_key} |->
                          IF k = state_key THEN state[4] ELSE acc.visited[k]],
           queue |-> Append(acc.queue, state)]
     ELSE acc

\* new_encounters of lines 83-87, 98-102 and 112-116.
SimpleEncounters(planet, new_day, encounters, hunters_set) ==
  IF <<planet, new_day>> \in hunters_set THEN encounters + 1 ELSE encounters

\* lines 77-93: the neighbors of the planet, in the order of the graph.
RECURSIVE SimpleTravel(_, _, _, _, _)
SimpleTravel(edges, i, cur, hunters_set, acc) ==
  IF i > Len(edges) THEN acc
  ELSE LET neighbor == edges[i][1]
           travel_time == edges[i][2]
           new_day == cur[2] + travel_time
       IN IF travel_time <= cur[3]
          THEN SimpleTravel(edges, i + 1, cur, hunters_set,
                 SimpleVisit(<<neighbor, new_day, cur[3] - travel_time,
                               SimpleEncounters(neighbor, new_day, cur[4], hunters_set)>>, acc))
          ELSE SimpleTravel(edges, i + 1, cur, hunters_set, acc)

\* lines 76-121: travel, then refuel below a full tank, then wait on one.
SimpleExplore(cur, hunters_set, acc) ==
  LET travelled == IF cur[1] \in DOMAIN SimpleGraph
                   THEN SimpleTravel(SimpleGraph[cur[1]], 1, cur, hunters_set, acc)
                   ELSE acc
      stay == <<cur[1], cur[2] + 1, autonomy,
                SimpleEncounters(cur[1], cur[2] + 1, cur[4], hunters_set)>>
      refuelled == IF cur[3] < autonomy THEN SimpleVisit(stay, travelled) ELSE travelled
  IN IF cur[3] = autonomy THEN SimpleVisit(stay, refuelled) ELSE refuelled

\* lines 59-121, the "while queue" loop run to its end: past the deadline a
\* state is skipped; on Endor it may lower min_encounters and is left, before
\* the bound on the best so far is tested.
RECURSIVE SimpleLoop(_, _, _, _, _)
SimpleLoop(q, vis, least, hunters_set, c) ==
  IF q = << >> THEN least
  ELSE LET cur == Head(q)
       IN IF cur[2] > c
          THEN SimpleLoop(Tail(q), vis, least, hunters_set, c)
          ELSE IF cur[1] = "Endor"
          THEN SimpleLoop(Tail(q), vis,
                          IF least = None THEN Some(cur[4])
                          ELSE IF cur[4] < least[1] THEN Some(cur[4]) ELSE least,
                          hunters_set, c)
          ELSE IF (IF least = None THEN FALSE ELSE cur[4] >= least[1])
          THEN SimpleLoop(Tail(q), vis, least, hunters_set, c)
          ELSE LET acc == SimpleExplore(cur, hunters_set, [visited |-> vis, queue |-> Tail(q)])
               IN SimpleLoop(acc.queue, acc.visited, least, hunters_set, c)

SimpleProbabilityUnreached(least) ==
  IF least = None THEN <<1, 1>>
  ELSE IF least[1] = 0 THEN <<1, 1>>
  ELSE <<9 ^ least[1], 10 ^ least[1]>>

\* lines 124-129: 0.0 when Endor was never reached, else 0.9 ** min_encounters,
\* as the fraction <<numerator, denominator>>.
SimpleProbability(least) ==
  IF least = None THEN <<0, 1>>
  ELSE IF least[1] = 0 THEN <<1, 1>>
  ELSE <<9 ^ least[1], 10 ^ least[1]>>

\* c3po_simple.C3PO.giveMeTheOdds, lines 36-129, on an empire document with
\* an integer countdown and a list of sightings, each with planet and day.
SimpleGiveMeTheOdds(data) ==
  SimpleProbability(
    SimpleLoop(<< <<"Tatooine", 0, autonomy, 0>> >>, (<<"Tatooine", 0, autonomy>> :> 0),
               None, SimpleHuntersSet(data.bounty_hunters.list), data.countdown.int))

\* C38: for an empire document the parser accepts and routes that name both
\* Tatooine and Endor, the modular giveMeTheOdds returns odds, and they are
\* the odds c3po_simple's giveMeTheOdds returns for the same routes,
\* autonomy and document.
C38_SimpleAgrees ==
  (/\ pc = "c3po" /\ Asked("giveMeTheOdds")
   /\ ~IsRaised(parse_empire(Args))
   /\ {"Tatooine", "Endor"} \subseteq GalaxyPlanets(routes)) =>
    /\ "odds" \in DOMAIN Outcome
    /\ Outcome.odds = SimpleGiveMeTheOdds(Args)

\* A call has returned after a search that met two arrivals on Endor in
\* time with the same count: the second was taken from the queue with a
\* count no lower than the best so far, where the two loops differ.
C38_Witness ==
  /\ pc = "c3po" /\ Asked("giveMeTheOdds")
  /\ "odds" \in DOMAIN Outcome
  /\ last_encounters # None /\ last_encounters[1] >= 0
  /\ \E a \in DOMAIN visited, b \in DOMAIN visited :
       /\ a # b
       /\ a[1] = "Endor" /\ b[1] = "Endor"
       /\ a[2] <= countdown /\ b[2] <= countdown
       /\ visited[a] = visited[b]

====
